---------------------------- MODULE Spec2Model ----------------------------
(***************************************************************************)
(* Scoring core of git_reviewer.                                           *)
(*                                                                         *)
(* Two independent tracks are modelled:                                    *)
(*   - the geek index (an h-index over contribution scores), computed by   *)
(*     four routines of src/core_analysis;                                 *)
(*   - the four-category assessment of                                     *)
(*     src/founding_engineer_review/scoring/scoring_engine.py.             *)
(*                                                                         *)
(* The code computes in floating point; the model uses exact fixed point:  *)
(*   - a contribution score (cis_score, score, final_score) is held in     *)
(*     halves, so 7.5 is 15 and the rank i is compared as 2 * i;           *)
(*   - a ratio in [0,1] is held in percent;                                *)
(*   - a category score is held in hundredths of a point;                  *)
(*   - an overall score is held in ten-thousandths of a point (category    *)
(*     score in hundredths times weight in percent).                       *)
(***************************************************************************)
EXTENDS Integers, Sequences, FiniteSets, TLC

\* ------------------------------------------------------------------------
\* Bounds of the model
\* ------------------------------------------------------------------------

\* longest list of contributions handed to a geek-index routine
MaxContributions == 4

\* longest risk list handed to determine_recommendation by a direct caller
MaxRisks == 4

\* ------------------------------------------------------------------------
\* Geek index: data
\* ------------------------------------------------------------------------

\* the four classes that compute a geek index
Analyzers ==
    {"ContributionImpactScorer", "EnhancedCISCalculator",
     "OptimizedHybridAnalyzer", "ImprovedHybridAnalyzer"}

\* analyze_pr_contribution returns None when the analysis of a PR fails
None == [analysis |-> "None"]

\* no value yet (no recommendation made, no exception raised)
Nothing == "Nothing"

\* no geek-index routine has been run, so no statistics exist
NoSummary == [routine |-> "not run"]

\* no analyze_contributor call has returned
NoAnalysis == [analysis_type |-> "none"]

\* no scoring call has been made
NoInput == [call |-> "none"]

\* no metrics bundle has been scored
NoMetrics == "NoMetrics"

\* the rank i in the unit of the scores (halves)
Rank(i) == 2 * i

\* scores a contribution can carry: 0, 0.5, 1, 2, 3, 5, 7.5, 9
ScoreSet == {0, 1, 2, 4, 6, 10, 15, 18}

\* a scored contribution; only the score takes part in the geek index
\* (the field is cis_score, score or final_score depending on the class)
Contributions == [cis_score : ScoreSet]

VARIABLES
    analyzer,        \* the class whose routine is in use
    found,           \* what the routine is run over, in collection order
    contributions,   \* the ranked list the routine produced
    geek_index,      \* the geek index the routine produced
    op,              \* last operation of the assessment track
    metrics,         \* the (part of) FoundingEngineerMetrics last passed
    activity_count,  \* activity count of the last scoring run
    category_scores, \* category name -> score
    overall_score,   \* weighted overall score
    risk_factors,    \* the risk list of the last run, as ranked
    strengths,       \* AssessmentResult.top_strengths of the last run
    recommendation,  \* RecommendationLevel of the last run
    confidence_level,\* confidence of the last run
    hiring_recommendation, \* the kind of reasoning given with it
    critical_risks,  \* AssessmentResult.critical_risks of the last run
    raised,          \* the exception the last run raised, or Nothing
    summary,         \* the statistics returned with the geek index
    scoring_op,      \* last operation of the contribution-scoring track
    cis_breakdown,   \* the breakdown of the last scored contribution
    significant,     \* the contributions the last collection returned
    scoring_input,   \* what the last scoring call was given
    analysis,        \* what the last analyze_contributor call returned
    shared_scorer,   \* attributes of the shared FoundingEngineerScorer
    jobs             \* candidate -> the scoring call in progress for them

geekVars == <<analyzer, found, contributions, geek_index, summary>>

assessVars ==
    <<op, metrics, activity_count, category_scores, overall_score,
      risk_factors, strengths, recommendation, confidence_level,
      hiring_recommendation, critical_risks, raised>>

scoringVars ==
    <<scoring_op, cis_breakdown, significant, scoring_input, analysis>>

sharedVars == <<shared_scorer, jobs>>

vars == <<analyzer, found, contributions, geek_index, op, metrics,
          activity_count, category_scores, overall_score, risk_factors,
          strengths, recommendation, confidence_level,
          hiring_recommendation, critical_risks, raised, summary,
          scoring_op, cis_breakdown, significant, scoring_input, analysis,
          shared_scorer, jobs>>

\* ------------------------------------------------------------------------
\* Geek index: the routines
\* ------------------------------------------------------------------------

\* list.sort(key=cis_score, reverse=True) / sorted(...): Python's sort is
\* stable, and with reverse=True equal keys keep their original order.
\* InsertDesc puts c after every element whose score is >= c's.
RECURSIVE InsertDesc(_, _)
InsertDesc(sorted, c) ==
    IF sorted = <<>> THEN <<c>>
    ELSE IF Head(sorted).cis_score >= c.cis_score
         THEN <<Head(sorted)>> \o InsertDesc(Tail(sorted), c)
         ELSE <<c>> \o sorted

RECURSIVE SortByScoreDesc(_)
SortByScoreDesc(list) ==
    IF list = <<>> THEN <<>>
    ELSE InsertDesc(SortByScoreDesc(SubSeq(list, 1, Len(list) - 1)),
                    list[Len(list)])

\* RankScan with the comparison made strict (cis_score > i)
RECURSIVE RankScanStrict(_, _, _)
RankScanStrict(list, i, g) ==
    IF i > Len(list) THEN g
    ELSE IF list[i].cis_score > Rank(i)
         THEN RankScanStrict(list, i + 1, i)
         ELSE g

\* the loop
\*   g_index = 0
\*   for i, c in enumerate(sorted, 1):
\*       if c.cis_score >= i: g_index = i
\*       else: break
\* entered at rank i with g_index = g
RECURSIVE RankScan(_, _, _)
RankScan(list, i, g) ==
    IF i > Len(list) THEN g
    ELSE IF list[i].cis_score >= Rank(i)
         THEN RankScan(list, i + 1, i)
         ELSE g

\* CIS_calculate_geek_index with the sort left out
CIS_calculate_geek_index_unsorted(analyses) ==
    LET kept == SelectSeq(analyses,
                          LAMBDA a : a # None /\ a.cis_score > 0)
    IN  [contributions |-> kept, geek_index |-> RankScan(kept, 1, 0)]

\* ContributionImpactScorer.calculate_geek_index over the analyses of the
\* PRs found: keeps the analyses that succeeded with a positive score,
\* sorts them in place and scans
CIS_calculate_geek_index(analyses) ==
    LET kept   == SelectSeq(analyses,
                            LAMBDA a : a # None /\ a.cis_score > 0)
        sorted == SortByScoreDesc(kept)
    IN  [contributions |-> sorted, geek_index |-> RankScan(sorted, 1, 0)]

\* Enhanced_calculate_geek_index with g_index += i in place of g_index = i
Enhanced_calculate_geek_index_accumulating(list) ==
    IF list = <<>>
    THEN [contributions |-> <<>>, geek_index |-> 0]
    ELSE LET sorted_contributions == SortByScoreDesc(list)
             g == RankScan(sorted_contributions, 1, 0)
         IN  [contributions |-> sorted_contributions,
              geek_index |-> (g * (g + 1)) \div 2]

\* EnhancedCISCalculator.calculate_geek_index(contributions)
Enhanced_calculate_geek_index(list) ==
    IF list = <<>>
    THEN [contributions |-> <<>>, geek_index |-> 0]
    ELSE LET sorted_contributions == SortByScoreDesc(list)
         IN  [contributions |-> sorted_contributions,
              geek_index |-> RankScan(sorted_contributions, 1, 0)]

\* Optimized_calculate_g_index with reverse=True left out of the sort
Optimized_calculate_g_index_ascending(list) ==
    IF list = <<>>
    THEN [contributions |-> <<>>, geek_index |-> 0]
    ELSE LET desc == SortByScoreDesc(list)
             sorted_contribs ==
                 [i \in 1..Len(desc) |-> desc[Len(desc) + 1 - i]]
         IN  [contributions |-> sorted_contribs,
              geek_index |-> RankScan(sorted_contribs, 1, 0)]

\* OptimizedHybridAnalyzer._calculate_g_index(contributions)
Optimized_calculate_g_index(list) ==
    IF list = <<>>
    THEN [contributions |-> <<>>, geek_index |-> 0]
    ELSE LET sorted_contribs == SortByScoreDesc(list)
         IN  [contributions |-> sorted_contribs,
              geek_index |-> RankScan(sorted_contribs, 1, 0)]

\* Improved_generate_final_analysis with the sort left out
Improved_generate_final_analysis_unsorted(deep_results) ==
    IF deep_results = <<>>
    THEN [contributions |-> <<>>, geek_index |-> 0]
    ELSE [contributions |-> deep_results,
          geek_index |-> RankScan(deep_results, 1, 0)]

\* ImprovedHybridAnalyzer._generate_final_analysis(deep_results): sorts
\* deep_results in place and scans
Improved_generate_final_analysis(deep_results) ==
    IF deep_results = <<>>
    THEN [contributions |-> <<>>, geek_index |-> 0]
    ELSE LET sorted == SortByScoreDesc(deep_results)
         IN  [contributions |-> sorted,
              geek_index |-> RankScan(sorted, 1, 0)]

\* the routine of class a run over list
RunGeekIndex(a, list) ==
    CASE a = "ContributionImpactScorer" -> CIS_calculate_geek_index(list)
      [] a = "EnhancedCISCalculator"    -> Enhanced_calculate_geek_index(list)
      [] a = "OptimizedHybridAnalyzer"  -> Optimized_calculate_g_index(list)
      [] a = "ImprovedHybridAnalyzer"   -> Improved_generate_final_analysis(list)

\* the mean of the scores of a list, in hundredths of the score unit
\* (truncated): sum(c.cis_score for c in contributions) / len(contributions)
RECURSIVE SumScores(_)
SumScores(list) ==
    IF list = <<>> THEN 0 ELSE Head(list).cis_score + SumScores(Tail(list))

MeanScore(list) == (100 * SumScores(list)) \div Len(list)

\* index_breakdown and total_contributions of the GeekIndexResult that
\* ContributionImpactScorer.calculate_geek_index returns
CIS_index_breakdown(analyses) ==
    LET r == CIS_calculate_geek_index(analyses)
    IN  [total_contributions_found |-> Len(analyses),
         total_contributions |-> Len(r.contributions),
         average_cis_score |->
             IF r.contributions # <<>> THEN MeanScore(r.contributions)
             ELSE 0]

\* analysis_summary returned by EnhancedCISCalculator.calculate_geek_index
Enhanced_analysis_summary(list) ==
    IF list = <<>>
    THEN [total_contributions |-> 0, qualifying_contributions |-> 0]
    ELSE LET r == Enhanced_calculate_geek_index(list)
         IN  [total_contributions |-> Len(list),
              qualifying_contributions |-> r.geek_index,
              avg_cis_score |-> MeanScore(list),
              top_cis_score |-> r.contributions[1].cis_score]

\* OptimizedHybridAnalyzer._calculate_g_index returns the index alone
Optimized_results(list) ==
    [g_index |-> Optimized_calculate_g_index(list).geek_index]

\* the report of ImprovedHybridAnalyzer._generate_final_analysis
Improved_final_analysis(deep_results) ==
    IF deep_results = <<>>
    THEN [g_index |-> 0, total_contributions |-> 0,
          error |-> "No contributions analyzed"]
    ELSE LET r == Improved_generate_final_analysis(deep_results)
         IN  [g_index |-> r.geek_index,
              total_contributions |-> Len(deep_results),
              top_score |-> r.contributions[1].cis_score]

\* the statistics the routine of class a returns with the index
RunSummary(a, list) ==
    CASE a = "ContributionImpactScorer" -> CIS_index_breakdown(list)
      [] a = "EnhancedCISCalculator"    -> Enhanced_analysis_summary(list)
      [] a = "OptimizedHybridAnalyzer"  -> Optimized_results(list)
      [] a = "ImprovedHybridAnalyzer"   -> Improved_final_analysis(list)

\* what one more collected item can be: ContributionImpactScorer analyses
\* each PR itself and an analysis can fail; the other routines are handed
\* scored contributions
Collectable(a) ==
    IF a = "ContributionImpactScorer"
    THEN Contributions \cup {None}
    ELSE Contributions

\* ------------------------------------------------------------------------
\* Geek index: operations
\* ------------------------------------------------------------------------

\* the routine is run over `list`
Recompute(list) ==
    LET r == RunGeekIndex(analyzer, list)
    IN  /\ found' = list
        /\ contributions' = r.contributions
        /\ geek_index' = r.geek_index
        /\ summary' = RunSummary(analyzer, list)
        /\ UNCHANGED analyzer

\* one more contribution is collected and the index is recomputed over the
\* whole accumulated list
Collect ==
    /\ Len(found) < MaxContributions
    /\ \E c \in Collectable(analyzer) : Recompute(Append(found, c))
    /\ UNCHANGED <<assessVars, scoringVars, sharedVars>>

\* scores of the items of a list that carry one
Scored(list) == {i \in 1..Len(list) : list[i] # None}

\* position of the single highest-scoring contribution (the first one
\* among equals)
TopIndex(list) ==
    CHOOSE i \in Scored(list) :
        /\ \A j \in Scored(list) : list[j].cis_score <= list[i].cis_score
        /\ \A j \in Scored(list) :
               list[j].cis_score = list[i].cis_score => i <= j

RemoveAt(list, i) == SubSeq(list, 1, i - 1) \o SubSeq(list, i + 1, Len(list))

\* the highest-scoring contribution is withdrawn and the index recomputed
RemoveTop ==
    /\ Scored(found) # {}
    /\ Recompute(RemoveAt(found, TopIndex(found)))
    /\ UNCHANGED <<assessVars, scoringVars, sharedVars>>

\* the same contributions are collected in another order (two neighbours
\* swapped) and the index recomputed
Reorder ==
    /\ \E i \in 1..(Len(found) - 1) :
           /\ found[i] # found[i + 1]
           /\ Recompute([found EXCEPT ![i] = found[i + 1],
                                      ![i + 1] = found[i]])
    /\ UNCHANGED <<assessVars, scoringVars, sharedVars>>

\* ------------------------------------------------------------------------
\* Assessment: data
\* ------------------------------------------------------------------------

\* n points as a category score (hundredths of a point)
Points(n) == n * 100

\* n points as an overall score (ten-thousandths of a point)
OverallPoints(n) == n * 10000

\* keys of category_weights and of category_scores, in dictionary order
CategoryOrder ==
    <<"technical_proficiency", "engineering_craftsmanship",
      "initiative_ownership", "collaboration_style">>

Categories == {CategoryOrder[k] : k \in 1..Len(CategoryOrder)}

\* category_weights with the weights of the first two categories exchanged
category_weights_exchanged ==
    [technical_proficiency     |-> 25,
     engineering_craftsmanship |-> 30,
     initiative_ownership      |-> 30,
     collaboration_style       |-> 15]

\* self.category_weights, in percent
category_weights ==
    [technical_proficiency     |-> 30,
     engineering_craftsmanship |-> 25,
     initiative_ownership      |-> 30,
     collaboration_style       |-> 15]

\* recommendation_thresholds with Conditional starting at 50
recommendation_thresholds_conditional_50 ==
    [STRONGLY_RECOMMENDED |-> OverallPoints(80),
     RECOMMENDED          |-> OverallPoints(65),
     CONDITIONAL          |-> OverallPoints(50),
     NOT_RECOMMENDED      |-> OverallPoints(0)]

\* self.recommendation_thresholds
recommendation_thresholds ==
    [STRONGLY_RECOMMENDED |-> OverallPoints(80),
     RECOMMENDED          |-> OverallPoints(65),
     CONDITIONAL          |-> OverallPoints(45),
     NOT_RECOMMENDED      |-> OverallPoints(0)]

RecommendationLevel ==
    {"STRONGLY_RECOMMENDED", "RECOMMENDED", "CONDITIONAL",
     "NOT_RECOMMENDED", "INSUFFICIENT_DATA"}

RiskLevel == {"LOW", "MEDIUM", "HIGH", "CRITICAL"}

\* the order of the values of RiskLevel, which are the strings "Low",
\* "Medium", "High" and "Critical": Python compares them as strings, so
\* "Critical" < "High" < "Low" < "Medium"
RiskLevelValueOrder ==
    [CRITICAL |-> 1, HIGH |-> 2, LOW |-> 3, MEDIUM |-> 4]

WorkRhythmPattern ==
    {"WEEKEND_WARRIOR", "NIGHT_OWL", "NINE_TO_FIVE", "EARLY_BIRD",
     "IRREGULAR", "UNKNOWN"}

\* a Strength: its description and its confidence in percent
Strength(d, c) == [description |-> d, confidence |-> c]

\* a RiskFactor whose severity is High where Medium was asked for
RiskFactor_medium_as_high(cat, d, sev, c) ==
    [category |-> cat, description |-> d,
     severity |-> IF sev = "MEDIUM" THEN "HIGH" ELSE sev, confidence |-> c]

\* a RiskFactor: category, description, severity, confidence in percent
RiskFactor(cat, d, sev, c) ==
    [category |-> cat, description |-> d, severity |-> sev, confidence |-> c]

\* ------------------------------------------------------------------------
\* Assessment: the four category scorers
\* ------------------------------------------------------------------------

\* score_technical_proficiency(metrics); the list fields are held by their
\* length and performance_languages by the sum of its values
score_technical_proficiency(m) ==
    LET ai_frameworks_count == m.ai_ml_frameworks
        total_perf_lines == m.performance_lines
        fullstack_evidence_count == m.full_stack_evidence
        sophistication_score == m.dependency_sophistication_score
        ai_score ==
            IF ai_frameworks_count >= 5 THEN Points(40)
            ELSE IF ai_frameworks_count >= 3 THEN Points(30)
            ELSE IF ai_frameworks_count >= 1 THEN Points(20)
            ELSE 0
        ai_strengths ==
            IF ai_frameworks_count >= 5
            THEN <<Strength("Extensive AI/ML expertise", 90)>>
            ELSE IF ai_frameworks_count >= 3
            THEN <<Strength("Solid AI/ML foundation", 80)>>
            ELSE <<>>
        ai_risks ==
            IF ai_frameworks_count >= 1 THEN <<>>
            ELSE <<RiskFactor("Technical Proficiency",
                              "No evidence of AI/ML framework experience",
                              "HIGH", 80)>>
        perf_score ==
            IF total_perf_lines >= 2000 THEN Points(25)
            ELSE IF total_perf_lines >= 500 THEN Points(15)
            ELSE IF total_perf_lines >= 100 THEN Points(10)
            ELSE 0
        perf_strengths ==
            IF total_perf_lines >= 2000
            THEN <<Strength("Strong performance programming skills", 80)>>
            ELSE <<>>
        fullstack_score ==
            IF fullstack_evidence_count >= 3 THEN Points(20)
            ELSE IF fullstack_evidence_count >= 2 THEN Points(15)
            ELSE IF fullstack_evidence_count >= 1 THEN Points(10)
            ELSE 0
        fullstack_strengths ==
            IF fullstack_evidence_count >= 3
            THEN <<Strength("Comprehensive full-stack development capabilities", 80)>>
            ELSE <<>>
        soph_score == sophistication_score * 15
        soph_strengths ==
            IF sophistication_score >= 70
            THEN <<Strength("Advanced dependency management and tooling", 70)>>
            ELSE <<>>
    IN  [score |-> ai_score + perf_score + fullstack_score + soph_score,
         strengths |-> ai_strengths \o perf_strengths \o fullstack_strengths
                          \o soph_strengths,
         risk_factors |-> ai_risks]

\* score_engineering_craftsmanship(metrics)
score_engineering_craftsmanship(m) ==
    LET linking_ratio == m.commit_issue_linking_ratio
        testing_ratio == m.testing_commitment_ratio
        workflow_score == m.structured_workflow_score
        review_thoroughness == m.code_review_thoroughness
        linking_strengths ==
            IF linking_ratio >= 60
            THEN <<Strength("Excellent workflow discipline and traceability", 90)>>
            ELSE <<>>
        linking_risks ==
            IF linking_ratio < 60 /\ linking_ratio < 20
            THEN <<RiskFactor("Engineering Craftsmanship",
                              "Poor commit-issue linking discipline",
                              "MEDIUM", 70)>>
            ELSE <<>>
        testing_strengths ==
            IF testing_ratio >= 50
            THEN <<Strength("Strong commitment to testing and quality", 80)>>
            ELSE <<>>
        testing_risks ==
            IF testing_ratio < 50 /\ testing_ratio < 10
            THEN <<RiskFactor("Engineering Craftsmanship",
                              "Minimal testing practices", "HIGH", 80)>>
            ELSE <<>>
        workflow_strengths ==
            IF workflow_score >= 70
            THEN <<Strength("Highly structured development workflow", 80)>>
            ELSE <<>>
    IN  [score |-> linking_ratio * 30 + testing_ratio * 30
                      + workflow_score * 25 + review_thoroughness * 15,
         strengths |-> linking_strengths \o testing_strengths
                          \o workflow_strengths,
         risk_factors |-> linking_risks \o testing_risks]

\* score_initiative_ownership(metrics)
score_initiative_ownership(m) ==
    LET self_directed_cycles == m.self_directed_work_cycles
        first_responder_count == m.first_responder_instances
        project_quality == m.personal_project_quality
        oss_contributions == m.open_source_contributions
        cycles_score ==
            IF self_directed_cycles >= 10 THEN Points(40)
            ELSE IF self_directed_cycles >= 5 THEN Points(30)
            ELSE IF self_directed_cycles >= 2 THEN Points(20)
            ELSE 0
        cycles_strengths ==
            IF self_directed_cycles >= 10
            THEN <<Strength("Exceptional self-direction and ownership", 95)>>
            ELSE IF self_directed_cycles >= 5
            THEN <<Strength("Strong ownership mentality", 80)>>
            ELSE <<>>
        cycles_risks ==
            IF self_directed_cycles = 0
            THEN <<RiskFactor("Initiative & Ownership",
                              "No evidence of self-directed work",
                              "HIGH", 70)>>
            ELSE <<>>
        responder_score ==
            IF first_responder_count >= 10 THEN Points(20)
            ELSE IF first_responder_count >= 5 THEN Points(15)
            ELSE IF first_responder_count >= 2 THEN Points(10)
            ELSE 0
        responder_strengths ==
            IF first_responder_count >= 10
            THEN <<Strength("Active community contributor and helper", 80)>>
            ELSE <<>>
        quality_strengths ==
            IF project_quality >= 70
            THEN <<Strength("High-quality personal projects demonstrate passion", 80)>>
            ELSE <<>>
        oss_score ==
            IF oss_contributions >= 5 THEN Points(20)
            ELSE IF oss_contributions >= 2 THEN Points(15)
            ELSE IF oss_contributions >= 1 THEN Points(10)
            ELSE 0
        oss_strengths ==
            IF oss_contributions >= 5
            THEN <<Strength("Active open source contributor", 80)>>
            ELSE <<>>
    IN  [score |-> cycles_score + responder_score + project_quality * 20
                      + oss_score,
         strengths |-> cycles_strengths \o responder_strengths
                          \o quality_strengths \o oss_strengths,
         risk_factors |-> cycles_risks]

\* score_collaboration_style(metrics); mentorship_indicators is held by its
\* length
score_collaboration_style(m) ==
    LET dedication_score == m.temporal_dedication_score
        work_pattern == m.work_rhythm_pattern
        receptiveness == m.feedback_receptiveness_score
        clarity == m.communication_clarity_score
        mentorship_count == m.mentorship_indicators
        pattern_score ==
            IF work_pattern = "WEEKEND_WARRIOR" THEN Points(10)
            ELSE IF work_pattern = "NIGHT_OWL" THEN Points(5)
            ELSE 0
        pattern_strengths ==
            IF work_pattern = "WEEKEND_WARRIOR"
            THEN <<Strength("Weekend Warrior pattern shows passion for coding", 80)>>
            ELSE <<>>
        pattern_risks ==
            IF work_pattern = "IRREGULAR"
            THEN <<RiskFactor("Collaboration Style",
                              "Irregular work schedule may affect team coordination",
                              "LOW", 60)>>
            ELSE <<>>
        receptiveness_strengths ==
            IF receptiveness >= 70
            THEN <<Strength("Highly receptive to feedback", 80)>>
            ELSE <<>>
        receptiveness_risks ==
            IF receptiveness < 70 /\ receptiveness < 30
            THEN <<RiskFactor("Collaboration Style",
                              "May be defensive or unreceptive to feedback",
                              "MEDIUM", 60)>>
            ELSE <<>>
        clarity_strengths ==
            IF clarity >= 80
            THEN <<Strength("Excellent written communication skills", 80)>>
            ELSE <<>>
        mentorship_score == IF mentorship_count > 0 THEN Points(15) ELSE 0
        mentorship_strengths ==
            IF mentorship_count > 0
            THEN <<Strength("Shows mentorship and knowledge sharing", 70)>>
            ELSE <<>>
    IN  [score |-> dedication_score * 30 + pattern_score + receptiveness * 25
                      + clarity * 20 + mentorship_score,
         strengths |-> pattern_strengths \o receptiveness_strengths
                          \o clarity_strengths \o mentorship_strengths,
         risk_factors |-> pattern_risks \o receptiveness_risks]

\* ------------------------------------------------------------------------
\* Assessment: overall score, recommendation, confidence
\* ------------------------------------------------------------------------

\* calculate_overall_score(category_scores): for each (category, weight) of
\* category_weights, adds category_scores.get(category, 0.0) * weight
calculate_overall_score(scores) ==
    LET get(category) ==
            IF category \in DOMAIN scores THEN scores[category] ELSE 0
        weighted_score[k \in 0..Len(CategoryOrder)] ==
            IF k = 0 THEN 0
            ELSE weighted_score[k - 1]
                     + get(CategoryOrder[k]) * category_weights[CategoryOrder[k]]
    IN  weighted_score[Len(CategoryOrder)]

\* the base recommendation determine_recommendation takes from the score
BaseRecommendation(score) ==
    IF score >= recommendation_thresholds["STRONGLY_RECOMMENDED"]
    THEN "STRONGLY_RECOMMENDED"
    ELSE IF score >= recommendation_thresholds["RECOMMENDED"]
    THEN "RECOMMENDED"
    ELSE IF score >= recommendation_thresholds["CONDITIONAL"]
    THEN "CONDITIONAL"
    ELSE "NOT_RECOMMENDED"

\* the reasoning determine_recommendation gives when it does not adjust
BaseReasoning(level) ==
    IF level = "STRONGLY_RECOMMENDED"
    THEN "Exceptional founding engineer candidate"
    ELSE IF level = "RECOMMENDED"
    THEN "Strong founding engineer candidate"
    ELSE IF level = "CONDITIONAL"
    THEN "Potential candidate with conditions"
    ELSE "Does not meet founding engineer criteria"

\* the adjustment for three or more high risks, with StronglyRecommended
\* taken down two tiers
HighRiskAdjustment_two_tiers(base_recommendation) ==
    IF base_recommendation \in {"STRONGLY_RECOMMENDED", "RECOMMENDED"}
    THEN [recommendation |-> "CONDITIONAL",
          reasoning |-> "Potential candidate but significant concerns"]
    ELSE [recommendation |-> base_recommendation,
          reasoning |-> "Score and high risks"]

\* the adjustment determine_recommendation makes for three or more high
\* risks
HighRiskAdjustment(base_recommendation) ==
    IF base_recommendation = "STRONGLY_RECOMMENDED"
    THEN [recommendation |-> "RECOMMENDED",
          reasoning |-> "Strong technical skills but high-risk areas need attention"]
    ELSE IF base_recommendation = "RECOMMENDED"
    THEN [recommendation |-> "CONDITIONAL",
          reasoning |-> "Potential candidate but significant concerns"]
    ELSE [recommendation |-> base_recommendation,
          reasoning |-> "Score and high risks"]

\* determine_recommendation with the check for critical risks left out
determine_recommendation_no_critical_check(score, risks) ==
    LET high_risks == SelectSeq(risks, LAMBDA rf : rf.severity = "HIGH")
        base_recommendation == BaseRecommendation(score)
    IN  IF Len(high_risks) >= 3
        THEN HighRiskAdjustment(base_recommendation)
        ELSE [recommendation |-> base_recommendation,
              reasoning |-> BaseReasoning(base_recommendation)]

\* determine_recommendation(overall_score, risk_factors): the level and the
\* kind of reasoning text returned with it
determine_recommendation(score, risks) ==
    LET critical == SelectSeq(risks, LAMBDA rf : rf.severity = "CRITICAL")
        high_risks == SelectSeq(risks, LAMBDA rf : rf.severity = "HIGH")
        base_recommendation == BaseRecommendation(score)
    IN  IF critical # <<>>
        THEN [recommendation |-> "NOT_RECOMMENDED",
              reasoning |-> "Critical risks identified"]
        ELSE IF Len(high_risks) >= 3
        THEN HighRiskAdjustment(base_recommendation)
        ELSE [recommendation |-> base_recommendation,
              reasoning |-> BaseReasoning(base_recommendation)]

\* calculate_confidence_level without the step at 10 activities
calculate_confidence_level_no_step_at_10(count, data_completeness) ==
    LET activity_confidence ==
            IF count >= 100 THEN 1000
            ELSE IF count >= 50 THEN 800
            ELSE IF count >= 20 THEN 600
            ELSE 200
    IN  activity_confidence + data_completeness

\* calculate_confidence_level(activity_count, data_completeness):
\* data_completeness and the activity confidence are held in thousandths,
\* the result (their mean) in two-thousandths
calculate_confidence_level(count, data_completeness) ==
    LET activity_confidence ==
            IF count >= 100 THEN 1000
            ELSE IF count >= 50 THEN 800
            ELSE IF count >= 20 THEN 600
            ELSE IF count >= 10 THEN 400
            ELSE 200
    IN  activity_confidence + data_completeness

\* all_strengths.sort(key=lambda s: s.confidence, reverse=True): stable,
\* equal confidences keep their order
RECURSIVE InsertStrength(_, _)
InsertStrength(sorted, x) ==
    IF sorted = <<>> THEN <<x>>
    ELSE IF Head(sorted).confidence >= x.confidence
         THEN <<Head(sorted)>> \o InsertStrength(Tail(sorted), x)
         ELSE <<x>> \o sorted

RECURSIVE SortStrengths(_)
SortStrengths(list) ==
    IF list = <<>> THEN <<>>
    ELSE InsertStrength(SortStrengths(SubSeq(list, 1, Len(list) - 1)),
                        list[Len(list)])

\* the key (r.severity.value, r.confidence) of a is >= that of b
RiskKeyGE(a, b) ==
    \/ RiskLevelValueOrder[a.severity] > RiskLevelValueOrder[b.severity]
    \/ /\ a.severity = b.severity
       /\ a.confidence >= b.confidence

\* all_risks.sort(key=lambda r: (r.severity.value, r.confidence),
\* reverse=True): stable, equal keys keep their order
RECURSIVE InsertRisk(_, _)
InsertRisk(sorted, x) ==
    IF sorted = <<>> THEN <<x>>
    ELSE IF RiskKeyGE(Head(sorted), x)
         THEN <<Head(sorted)>> \o InsertRisk(Tail(sorted), x)
         ELSE <<x>> \o sorted

RECURSIVE SortRisks(_)
SortRisks(list) ==
    IF list = <<>> THEN <<>>
    ELSE InsertRisk(SortRisks(SubSeq(list, 1, Len(list) - 1)),
                    list[Len(list)])

\* the first n items of a list (list[:n])
Take(list, n) == SubSeq(list, 1, IF Len(list) < n THEN Len(list) ELSE n)

\* score_comprehensive_assessment with critical_risks taken as the first
\* five risks of the sorted list, the way top_strengths is taken
score_comprehensive_assessment_first_five_risks(m, count) ==
    LET tech == score_technical_proficiency(m.technical_proficiency)
        craft == score_engineering_craftsmanship(m.engineering_craftsmanship)
        initiative == score_initiative_ownership(m.initiative_ownership)
        collab == score_collaboration_style(m.collaboration_style)
        scores ==
            [technical_proficiency     |-> tech.score,
             engineering_craftsmanship |-> craft.score,
             initiative_ownership      |-> initiative.score,
             collaboration_style       |-> collab.score]
        overall == calculate_overall_score(scores)
        all_strengths ==
            SortStrengths(tech.strengths \o craft.strengths
                              \o initiative.strengths \o collab.strengths)
        all_risks ==
            SortRisks(tech.risk_factors \o craft.risk_factors
                          \o initiative.risk_factors \o collab.risk_factors)
        decided == determine_recommendation(overall, all_risks)
        confidence == calculate_confidence_level(count, m.data_completeness_score)
    IN  [category_scores |-> scores,
         overall_score |-> overall,
         all_risks |-> all_risks,
         all_strengths |-> all_strengths,
         recommendation |-> decided.recommendation,
         hiring_recommendation |-> decided.reasoning,
         confidence_level |-> confidence,
         top_strengths |-> Take(all_strengths, 5),
         critical_risks |-> Take(all_risks, 5)]

\* score_comprehensive_assessment(metrics, activity_count): the fields of
\* the AssessmentResult it returns (the texts are left out, the reasoning
\* is kept by its kind)
score_comprehensive_assessment(m, count) ==
    LET tech == score_technical_proficiency(m.technical_proficiency)
        craft == score_engineering_craftsmanship(m.engineering_craftsmanship)
        initiative == score_initiative_ownership(m.initiative_ownership)
        collab == score_collaboration_style(m.collaboration_style)
        scores ==
            [technical_proficiency     |-> tech.score,
             engineering_craftsmanship |-> craft.score,
             initiative_ownership      |-> initiative.score,
             collaboration_style       |-> collab.score]
        overall == calculate_overall_score(scores)
        all_strengths ==
            SortStrengths(tech.strengths \o craft.strengths
                              \o initiative.strengths \o collab.strengths)
        all_risks ==
            SortRisks(tech.risk_factors \o craft.risk_factors
                          \o initiative.risk_factors \o collab.risk_factors)
        decided == determine_recommendation(overall, all_risks)
        confidence == calculate_confidence_level(count, m.data_completeness_score)
    IN  [category_scores |-> scores,
         overall_score |-> overall,
         all_risks |-> all_risks,
         all_strengths |-> all_strengths,
         recommendation |-> decided.recommendation,
         hiring_recommendation |-> decided.reasoning,
         confidence_level |-> confidence,
         top_strengths |-> Take(all_strengths, 5),
         critical_risks |->
             SelectSeq(all_risks,
                       LAMBDA r : r.severity \in {"CRITICAL", "HIGH"})]

\* FoundingEngineerReviewer._calculate_data_completeness(activity_data), in
\* thousandths: the five factors are held in tenths, their mean weighs 0.7
\* and the volume factor 0.3
calculate_data_completeness(activity_data) ==
    LET factors ==
            (IF activity_data.commits THEN 10 ELSE 0)
          + (IF activity_data.issues THEN 10 ELSE 5)
          + (IF activity_data.pull_requests THEN 10 ELSE 3)
          + (IF activity_data.reviews THEN 10 ELSE 3)
          + (IF activity_data.comments THEN 10 ELSE 2)
        volume_factor ==
            IF activity_data.total_activities >= 50 THEN 10
            ELSE IF activity_data.total_activities >= 20 THEN 8
            ELSE IF activity_data.total_activities >= 10 THEN 6
            ELSE 4
    IN  factors * 14 + volume_factor * 30

\* FoundingEngineerReviewer.generate_comprehensive_review: activity_data is
\* what the data source collected, username what resolve_user_login
\* returned (None when it cannot resolve), analysed the category metrics
\* the four analyzers return.  Gives the exception raised, or the result.
generate_comprehensive_review(activity_data, username, analysed) ==
    IF activity_data.total_activities = 0
    THEN [raised |-> "ValueError: No GitHub activity found"]
    ELSE IF username = "None"
    THEN [raised |-> "ValueError: Could not resolve user"]
    ELSE LET comprehensive_metrics ==
                 [technical_proficiency |-> analysed.technical_proficiency,
                  engineering_craftsmanship |-> analysed.engineering_craftsmanship,
                  initiative_ownership |-> analysed.initiative_ownership,
                  collaboration_style |-> analysed.collaboration_style,
                  data_completeness_score |->
                      calculate_data_completeness(activity_data)]
         IN  [raised |-> Nothing,
              metrics |-> comprehensive_metrics,
              result |-> score_comprehensive_assessment(
                             comprehensive_metrics,
                             activity_data.total_activities)]

\* ------------------------------------------------------------------------
\* Assessment: inputs
\* ------------------------------------------------------------------------

\* category scores a direct caller of calculate_overall_score passes
CategoryScoreChoices ==
    {Points(0), Points(50), Points(60), Points(80), Points(90), Points(100)}

\* the dictionaries passed: all four categories, or some of them missing
CategoryScoreInputs ==
    [Categories -> CategoryScoreChoices]
        \cup UNION {[S -> {Points(50), Points(80)}] :
                        S \in (SUBSET Categories) \ {Categories}}

\* overall scores a direct caller of determine_recommendation passes: the
\* thresholds, the values just below them and the ends of the scale
OverallScoreInputs ==
    {OverallPoints(0), OverallPoints(45) - 1, OverallPoints(45),
     OverallPoints(65) - 1, OverallPoints(65), OverallPoints(80) - 1,
     OverallPoints(80), OverallPoints(100)}

\* risk lists a direct caller of determine_recommendation passes
RiskInputs ==
    {RiskFactor("Any", "risk", sev, 70) : sev \in RiskLevel}

RiskListInputs == UNION {[1..n -> RiskInputs] : n \in 0..MaxRisks}

\* metrics bundles of the four categories
TechnicalProficiencyInputs ==
    {[ai_ml_frameworks |-> a, performance_lines |-> r[1],
      full_stack_evidence |-> r[2],
      dependency_sophistication_score |-> r[3]] :
         a \in {0, 1, 5}, r \in {<<0, 0, 0>>, <<2000, 3, 100>>}}

EngineeringCraftsmanshipInputs ==
    {[commit_issue_linking_ratio |-> r[1], testing_commitment_ratio |-> t,
      structured_workflow_score |-> r[2],
      code_review_thoroughness |-> r[3]] :
         t \in {0, 9, 100}, r \in {<<0, 0, 0>>, <<100, 100, 100>>}}

InitiativeOwnershipInputs ==
    {[self_directed_work_cycles |-> c, first_responder_instances |-> r[1],
      personal_project_quality |-> r[2],
      open_source_contributions |-> r[3]] :
         c \in {0, 1, 10}, r \in {<<0, 0, 0>>, <<10, 100, 5>>}}

CollaborationStyleInputs ==
    {[temporal_dedication_score |-> r[1], work_rhythm_pattern |-> w,
      feedback_receptiveness_score |-> r[2],
      communication_clarity_score |-> r[3],
      mentorship_indicators |-> r[4]] :
         w \in {"WEEKEND_WARRIOR", "NINE_TO_FIVE", "IRREGULAR"},
         r \in {<<0, 0, 0, 0>>, <<100, 100, 100, 1>>}}

\* what the four analyzers return for one candidate
AnalysedInputs ==
    [technical_proficiency : TechnicalProficiencyInputs,
     engineering_craftsmanship : EngineeringCraftsmanshipInputs,
     initiative_ownership : InitiativeOwnershipInputs,
     collaboration_style : CollaborationStyleInputs]

\* activity counts around the confidence steps
ActivityCounts == {0, 5, 10, 20, 50, 100}

\* data completeness scores, in thousandths
DataCompletenessInputs == {0, 500, 1000}

\* activity counts a direct caller of calculate_confidence_level passes:
\* both sides of every step, and a negative count
ConfidenceCountInputs == {-5, 0, 9, 10, 19, 20, 49, 50, 99, 100, 150}

\* data completeness a direct caller passes, in thousandths: the ends and
\* the middle of [0,1], and 1.5
ConfidenceCompletenessInputs == {0, 500, 1000, 1500}

\* bundles a direct caller of a category scorer passes: the analysed ones
\* and bundles with a ratio of 1.5, a ratio of -0.5 or a negative count
TechnicalProficiencyCallInputs ==
    TechnicalProficiencyInputs
    \cup {[ai_ml_frameworks |-> 5, performance_lines |-> 2000,
           full_stack_evidence |-> 3,
           dependency_sophistication_score |-> 150],
          [ai_ml_frameworks |-> 0, performance_lines |-> 0,
           full_stack_evidence |-> 0,
           dependency_sophistication_score |-> -50]}

EngineeringCraftsmanshipCallInputs ==
    EngineeringCraftsmanshipInputs
    \cup {[commit_issue_linking_ratio |-> 100, testing_commitment_ratio |-> 150,
           structured_workflow_score |-> 100,
           code_review_thoroughness |-> 100],
          [commit_issue_linking_ratio |-> 50, testing_commitment_ratio |-> 150,
           structured_workflow_score |-> 0,
           code_review_thoroughness |-> 0],
          [commit_issue_linking_ratio |-> 0, testing_commitment_ratio |-> -50,
           structured_workflow_score |-> 0,
           code_review_thoroughness |-> 0]}

InitiativeOwnershipCallInputs ==
    InitiativeOwnershipInputs
    \cup {[self_directed_work_cycles |-> 10, first_responder_instances |-> 10,
           personal_project_quality |-> 150,
           open_source_contributions |-> 5],
          [self_directed_work_cycles |-> -1, first_responder_instances |-> 0,
           personal_project_quality |-> 0,
           open_source_contributions |-> 0]}

CollaborationStyleCallInputs ==
    CollaborationStyleInputs
    \cup {[temporal_dedication_score |-> 150,
           work_rhythm_pattern |-> "WEEKEND_WARRIOR",
           feedback_receptiveness_score |-> 100,
           communication_clarity_score |-> 100,
           mentorship_indicators |-> 1],
          [temporal_dedication_score |-> -50,
           work_rhythm_pattern |-> "NINE_TO_FIVE",
           feedback_receptiveness_score |-> 50,
           communication_clarity_score |-> 0,
           mentorship_indicators |-> 0]}

\* ActivityData as collected: which lists are non-empty, and the total
\* number of activities, which is the length of the merged timeline (0 when
\* every list is empty, at least the number of non-empty lists otherwise)
ActivityDataInputs ==
    {[commits |-> FALSE, issues |-> FALSE, pull_requests |-> FALSE,
      reviews |-> FALSE, comments |-> FALSE, total_activities |-> 0]}
    \cup
    {[commits |-> TRUE, issues |-> b, pull_requests |-> b,
      reviews |-> b, comments |-> b, total_activities |-> n] :
         b \in BOOLEAN, n \in ActivityCounts \ {0}}

\* what resolve_user_login returns
UsernameInputs == {"candidate", "None"}

\* ------------------------------------------------------------------------
\* Assessment: operations
\* ------------------------------------------------------------------------

\* calculate_overall_score(scores) is called and returns
OverallScoreCall(scores) ==
    /\ op' = "calculate_overall_score"
    /\ category_scores' = scores
    /\ overall_score' = calculate_overall_score(scores)
    /\ UNCHANGED <<metrics, activity_count, risk_factors, strengths,
                   recommendation, confidence_level, hiring_recommendation,
                   critical_risks, raised>>
    /\ UNCHANGED <<geekVars, scoringVars, sharedVars>>

\* determine_recommendation(score, risks) is called and returns
RecommendationCall(score, risks) ==
    /\ op' = "determine_recommendation"
    /\ overall_score' = score
    /\ risk_factors' = risks
    /\ LET decided == determine_recommendation(score, risks)
       IN  /\ recommendation' = decided.recommendation
           /\ hiring_recommendation' = decided.reasoning
    /\ UNCHANGED <<metrics, activity_count, category_scores, strengths,
                   confidence_level, critical_risks, raised>>
    /\ UNCHANGED <<geekVars, scoringVars, sharedVars>>

\* the fields of an AssessmentResult are recorded
Record(m, count, result) ==
    /\ metrics' = m
    /\ activity_count' = count
    /\ category_scores' = result.category_scores
    /\ overall_score' = result.overall_score
    /\ risk_factors' = result.all_risks
    /\ strengths' = result.top_strengths
    /\ recommendation' = result.recommendation
    /\ hiring_recommendation' = result.hiring_recommendation
    /\ confidence_level' = result.confidence_level
    /\ critical_risks' = result.critical_risks

\* score_comprehensive_assessment(m, count) is called and returns
AssessmentCall(m, count) ==
    /\ op' = "score_comprehensive_assessment"
    /\ Record(m, count, score_comprehensive_assessment(m, count))
    /\ UNCHANGED raised
    /\ UNCHANGED <<geekVars, scoringVars, sharedVars>>

\* generate_comprehensive_review is called for a candidate and returns or
\* raises
ReviewCall(activity_data, username, analysed) ==
    /\ op' = "generate_comprehensive_review"
    /\ LET out == generate_comprehensive_review(activity_data, username,
                                                analysed)
       IN  IF out.raised # Nothing
           THEN /\ raised' = out.raised
                /\ activity_count' = activity_data.total_activities
                /\ UNCHANGED <<metrics, category_scores, overall_score,
                               risk_factors, strengths, recommendation,
                               confidence_level, hiring_recommendation,
                               critical_risks>>
           ELSE /\ raised' = Nothing
                /\ Record(out.metrics, activity_data.total_activities,
                          out.result)
    /\ UNCHANGED <<geekVars, scoringVars, sharedVars>>

\* calculate_confidence_level(count, data_completeness) is called and
\* returns
ConfidenceCall(count, data_completeness) ==
    /\ op' = "calculate_confidence_level"
    /\ activity_count' = count
    /\ metrics' = [data_completeness_score |-> data_completeness]
    /\ confidence_level' = calculate_confidence_level(count, data_completeness)
    /\ UNCHANGED <<category_scores, overall_score, risk_factors, strengths,
                   recommendation, hiring_recommendation, critical_risks,
                   raised>>
    /\ UNCHANGED <<geekVars, scoringVars, sharedVars>>

\* the scorer of one category is called with that category's metrics and
\* returns its score, strengths and risk factors
CategoryCall(scorer, category, m, assessment) ==
    /\ op' = scorer
    /\ metrics' = [c \in {category} |-> m]
    /\ category_scores' = [c \in {category} |-> assessment.score]
    /\ risk_factors' = assessment.risk_factors
    /\ strengths' = assessment.strengths
    /\ UNCHANGED <<activity_count, overall_score, recommendation,
                   confidence_level, hiring_recommendation, critical_risks,
                   raised>>
    /\ UNCHANGED <<geekVars, scoringVars, sharedVars>>

\* a caller that holds no outcome calls calculate_confidence_level
CalculateConfidenceLevel ==
    /\ op = "idle"
    /\ \E count \in ConfidenceCountInputs,
          data_completeness \in ConfidenceCompletenessInputs :
           ConfidenceCall(count, data_completeness)

\* a caller that holds no outcome calls score_technical_proficiency
ScoreTechnicalProficiency ==
    /\ op = "idle"
    /\ \E m \in TechnicalProficiencyCallInputs :
           CategoryCall("score_technical_proficiency",
                        "technical_proficiency", m,
                        score_technical_proficiency(m))

\* a caller that holds no outcome calls score_engineering_craftsmanship
ScoreEngineeringCraftsmanship ==
    /\ op = "idle"
    /\ \E m \in EngineeringCraftsmanshipCallInputs :
           CategoryCall("score_engineering_craftsmanship",
                        "engineering_craftsmanship", m,
                        score_engineering_craftsmanship(m))

\* a caller that holds no outcome calls score_initiative_ownership
ScoreInitiativeOwnership ==
    /\ op = "idle"
    /\ \E m \in InitiativeOwnershipCallInputs :
           CategoryCall("score_initiative_ownership",
                        "initiative_ownership", m,
                        score_initiative_ownership(m))

\* a caller that holds no outcome calls score_collaboration_style
ScoreCollaborationStyle ==
    /\ op = "idle"
    /\ \E m \in CollaborationStyleCallInputs :
           CategoryCall("score_collaboration_style",
                        "collaboration_style", m,
                        score_collaboration_style(m))

\* a caller that holds no outcome calls calculate_overall_score
CalculateOverallScore ==
    /\ op = "idle"
    /\ \E scores \in CategoryScoreInputs : OverallScoreCall(scores)

\* a caller that holds no outcome calls determine_recommendation
DetermineRecommendation ==
    /\ op = "idle"
    /\ \E score \in OverallScoreInputs, risks \in RiskListInputs :
           RecommendationCall(score, risks)

\* a caller that holds no outcome calls score_comprehensive_assessment
ScoreComprehensiveAssessment ==
    /\ op = "idle"
    /\ \E analysed \in AnalysedInputs, dc \in DataCompletenessInputs,
          count \in ActivityCounts :
           AssessmentCall(
               [technical_proficiency |-> analysed.technical_proficiency,
                engineering_craftsmanship |->
                    analysed.engineering_craftsmanship,
                initiative_ownership |-> analysed.initiative_ownership,
                collaboration_style |-> analysed.collaboration_style,
                data_completeness_score |-> dc],
               count)

\* a caller that holds no outcome calls generate_comprehensive_review
GenerateComprehensiveReview ==
    /\ op = "idle"
    /\ \E activity_data \in ActivityDataInputs,
          username \in UsernameInputs, analysed \in AnalysedInputs :
           ReviewCall(activity_data, username, analysed)

\* the caller has taken the outcome; the next call starts afresh
Return ==
    /\ op # "idle"
    /\ op' = "idle"
    /\ metrics' = NoMetrics
    /\ activity_count' = 0
    /\ category_scores' = <<>>
    /\ overall_score' = 0
    /\ risk_factors' = <<>>
    /\ strengths' = <<>>
    /\ recommendation' = Nothing
    /\ confidence_level' = 0
    /\ hiring_recommendation' = Nothing
    /\ critical_risks' = <<>>
    /\ raised' = Nothing
    /\ UNCHANGED <<geekVars, scoringVars, sharedVars>>

\* ------------------------------------------------------------------------
\* Contribution scoring: data
\* ------------------------------------------------------------------------
\* Units of this track: a line count weighted by file type and a complexity
\* factor are held in tenths; a logarithm, a substance score and a
\* multiplier in hundredths (truncated); a final score, the product of a
\* substance score and three multipliers, in millionths.

\* no contribution has been scored yet
NoBreakdown == [breakdown |-> "none"]

\* n points in the unit of a final score
CisPoints(n) == n * 1000000

\* math.log(x) for x held in hundredths, in hundredths, at the arguments
\* the inputs below produce
Ln(x) ==
    CASE x = 100 -> 0
      [] x = 120 -> 18
      [] x = 124 -> 21
      [] x = 200 -> 69
      [] x = 300 -> 109
      [] x = 320 -> 116
      [] x = 340 -> 122
      [] x = 364 -> 129
      [] x = 400 -> 138
      [] x = 600 -> 179
      [] x = 1100 -> 239
      [] x = 1120 -> 241
      [] x = 1300 -> 256
      [] x = 1320 -> 258
      [] x = 1324 -> 258
      [] x = 1540 -> 273
      [] x = 1564 -> 274
      [] x = 20100 -> 530
      [] x = 20120 -> 530
      [] x = 20300 -> 531
      [] x = 20320 -> 531
      [] x = 24100 -> 548
      [] x = 24124 -> 548
      [] x = 24340 -> 549
      [] x = 24364 -> 549
      [] x = 100000 -> 690
      [] x = 150100 -> 731
      [] x = 4000100 -> 1059
      [] x = 1000000000 -> 1611

\* math.log(n) for a count n, in hundredths
LnCount(n) ==
    IF n <= 10000000 THEN Ln(100 * n)
    ELSE CASE n = 2000000000 -> 2141
           [] n = 2100000000 -> 2146

\* math.log10(x) for x held in hundredths, in hundredths
Log10(x) ==
    CASE x = 100 -> 0
      [] x = 150100 -> 317
      [] x = 4000100 -> 460

\* min(a, b)
Min(a, b) == IF a <= b THEN a ELSE b

\* the changed files of a contribution after classification: meaningful
\* lines by file type (excluded files weigh nothing and are left out) and
\* the number of distinct complexity keywords found
FilesInputs ==
    [code_lines : {0, 10, 200}, config_lines : {0, 4}, doc_lines : {0, 1},
     keywords : {0, 2}]

\* counts read from the GitHub API
CommentCounts == {0, 3, 999}
ReactionCounts == {0, 5}
StarCounts == {0, 1500, 40000}
ForkCounts == {0, 200}

\* the same with counts large enough for the 3.0 cap of the quality
\* multiplier and the 5.0 cap of the community multiplier to be reached
\* and passed
EngagementCounts == {9999999}
CappedCommentCounts == CommentCounts \cup EngagementCounts
CappedReactionCounts == ReactionCounts \cup EngagementCounts
CappedStarCounts == StarCounts \cup {1999999999, 2099999999}
CappedForkCounts == ForkCounts \cup {1999999999}

\* ------------------------------------------------------------------------
\* Contribution scoring: EnhancedCISCalculator
\* ------------------------------------------------------------------------

\* (a variant of the next definition in which the complexity keywords add
\* to the score directly instead of scaling the weighted line count)
Enhanced_calculate_substance_score_keyword_bonus(files) ==
    LET unique_keywords == files.keywords
        complexity_factor == 10 + unique_keywords
        weighted_lines ==
            files.code_lines * 10 + files.config_lines * 5
                + files.doc_lines * 2
    IN  [substance_score |->
             Ln(weighted_lines * complexity_factor + 100) + unique_keywords,
         weighted_lines |-> weighted_lines,
         complexity_factor |-> complexity_factor]

\* _calculate_substance_score(files_data): the score and the details
Enhanced_calculate_substance_score(files) ==
    LET unique_keywords == files.keywords
        complexity_factor == 10 + unique_keywords
        weighted_lines ==
            files.code_lines * 10 + files.config_lines * 5
                + files.doc_lines * 2
    IN  [substance_score |-> Ln(weighted_lines * complexity_factor + 100),
         weighted_lines |-> weighted_lines,
         complexity_factor |-> complexity_factor]

\* (a variant of the next definition in which a product above the cap
\* gives the multiplier 1.0)
Enhanced_calculate_quality_multiplier_reset_above_cap(comments_count, reactions_count) ==
    LET comment_factor == 1000 + Ln(100 * (comments_count + 1))
        reaction_factor == 2000 + Ln(100 * (reactions_count + 1))
    IN  IF comment_factor * reaction_factor > 3 * 2000000 THEN 100
        ELSE (comment_factor * reaction_factor) \div 20000

\* _calculate_quality_multiplier(comments_count, reactions_count):
\* comment_factor in thousandths, reaction_factor in two-thousandths
Enhanced_calculate_quality_multiplier(comments_count, reactions_count) ==
    LET comment_factor == 1000 + Ln(100 * (comments_count + 1))
        reaction_factor == 2000 + Ln(100 * (reactions_count + 1))
    IN  Min(comment_factor * reaction_factor, 3 * 2000000) \div 20000

\* _calculate_community_multiplier(repo_stars, repo_forks): popularity in
\* hundredths, the multiplier in thousandths before it is returned
Enhanced_calculate_community_multiplier(repo_stars, repo_forks) ==
    LET popularity_score ==
            LnCount(repo_stars + 1) + LnCount(repo_forks + 1)
        multiplier == 1000 + popularity_score
    IN  Min(multiplier, 5000) \div 10

\* _calculate_initiative_multiplier(is_self_directed)
Enhanced_calculate_initiative_multiplier(is_self_directed) ==
    IF is_self_directed THEN 2 ELSE 1

\* calculate_cis_score(...): the CISBreakdown
Enhanced_calculate_cis_score(files, comments_count, reactions_count, repo_stars, repo_forks, is_self_directed) ==
    LET substance == Enhanced_calculate_substance_score(files)
        quality_multiplier ==
            Enhanced_calculate_quality_multiplier(comments_count,
                                                  reactions_count)
        community_multiplier ==
            Enhanced_calculate_community_multiplier(repo_stars, repo_forks)
        initiative_multiplier ==
            Enhanced_calculate_initiative_multiplier(is_self_directed)
    IN  [substance_score |-> substance.substance_score,
         quality_multiplier |-> quality_multiplier,
         community_multiplier |-> community_multiplier,
         initiative_multiplier |-> initiative_multiplier,
         final_cis_score |->
             substance.substance_score * quality_multiplier
                 * community_multiplier * initiative_multiplier,
         weighted_lines |-> substance.weighted_lines,
         complexity_factor |-> substance.complexity_factor]

\* a scored contribution: SignificantContribution, with the html_url and
\* the creation date of the PR or commit it was made from
SignificantContribution(item, type, breakdown) ==
    [url |-> item.url,
     cis_score |-> breakdown.final_cis_score,
     contribution_type |-> type,
     breakdown |-> breakdown,
     created_at |-> item.created_at]

\* _analyze_pr_contribution(pr_data, repo_name, is_self_directed): None
\* when the PR cannot be read or has no files; the comments and the
\* reactions count 0 when they cannot be fetched
Enhanced_analyze_pr_contribution(pr, is_self_directed) ==
    IF pr.outcome # "ok" THEN None
    ELSE LET substantive_comments ==
                 IF pr.comments_available THEN pr.comments_count ELSE 0
             reactions_count ==
                 IF pr.reactions_available THEN pr.reactions_count ELSE 0
         IN  SignificantContribution(
                 pr,
                 IF is_self_directed THEN "self_directed_cycle"
                 ELSE "external_pr",
                 Enhanced_calculate_cis_score(pr.files, substantive_comments,
                                              reactions_count, pr.repo_stars,
                                              pr.repo_forks,
                                              is_self_directed))

\* _detect_major_maintainer_contributions(username, max_contributions) over
\* the owner's commits in repositories with more than 1000 stars: merge
\* commits, trivial commits and commits without files are passed over, a
\* scored commit gets the major-maintainer bonus, and the search stops once
\* max_contributions have been collected
RECURSIVE Enhanced_detect_major_maintainer_contributions(_, _, _)
Enhanced_detect_major_maintainer_contributions(commits, max_contributions, collected) ==
    IF commits = <<>> THEN collected
    ELSE LET commit == Head(commits)
         IN  IF commit.outcome # "ok"
             THEN Enhanced_detect_major_maintainer_contributions(
                      Tail(commits), max_contributions, collected)
             ELSE LET scored ==
                          Enhanced_calculate_cis_score(
                              commit.files, 0, 0, commit.repo_stars,
                              commit.repo_forks, TRUE)
                      cis_breakdown_bonus ==
                          [scored EXCEPT
                              !.final_cis_score = (@ * 15) \div 10]
                      longer ==
                          Append(collected,
                                 SignificantContribution(
                                     commit, "major_maintainer",
                                     cis_breakdown_bonus))
                  IN  IF Len(longer) >= max_contributions THEN longer
                      ELSE Enhanced_detect_major_maintainer_contributions(
                               Tail(commits), max_contributions, longer)

\* the analyses of a list of PRs, in order
AnalyzeAll(prs, is_self_directed) ==
    [i \in 1..Len(prs) |->
        Enhanced_analyze_pr_contribution(prs[i], is_self_directed)]

\* find_significant_contributions(username, max_contributions):
\* search_results are the merged PRs the search returns, cycles the work
\* cycles _find_self_directed_cycles_safe returns, commits the owner's
\* commits in major repositories
Enhanced_find_significant_contributions(search_results, cycles, commits, max_contributions) ==
    LET external ==
            SelectSeq(AnalyzeAll(Take(search_results, max_contributions),
                                 FALSE),
                      LAMBDA c : c # None /\ c.cis_score > CisPoints(1))
        self_directed ==
            SelectSeq(AnalyzeAll(cycles, TRUE), LAMBDA c : c # None)
        major_contributions ==
            Enhanced_detect_major_maintainer_contributions(
                commits, max_contributions \div 2, <<>>)
    IN  Take(SortByScoreDesc(external \o self_directed
                                 \o major_contributions),
             max_contributions)

\* ------------------------------------------------------------------------
\* Contribution scoring: ContributionImpactScorer
\* ------------------------------------------------------------------------

\* calculate_substance_score(lines_by_type, complexity_keywords)
CIS_calculate_substance_score(lines_by_type, complexity_keywords) ==
    LET weighted_lines ==
            lines_by_type.code_lines * 10 + lines_by_type.config_lines * 5
                + lines_by_type.doc_lines * 2
        complexity_factor == 10 + complexity_keywords
    IN  Ln(weighted_lines * complexity_factor + 100)

\* calculate_quality_multiplier(test_files_touched)
CIS_calculate_quality_multiplier(test_files_touched) ==
    IF test_files_touched THEN 150 ELSE 100

\* calculate_community_multiplier(repo_stars, substantive_comments)
CIS_calculate_community_multiplier(repo_stars, substantive_comments) ==
    LET repo_factor == Log10(100 * (repo_stars + 1))
        discussion_factor == Ln(100 * (substantive_comments + 1))
    IN  100 + repo_factor + discussion_factor

\* calculate_initiative_multiplier(is_self_directed)
CIS_calculate_initiative_multiplier(is_self_directed) ==
    IF is_self_directed THEN 2 ELSE 1

\* the body of a PR that has no description (null in the API's answer)
NullBody == "null"

\* 'fixes #' in body.lower() or 'closes #' in body.lower()
MentionsOwnIssue(body) == body \in {"Fixes #12", "closes #7"}

\* analyze_pr_contribution(pr_url, username): the ContributionAnalysis, or
\* None when a request fails, the URL is not a pull request or a step of
\* the analysis raises; the comments count 0 when the request for them
\* does not answer 200, and the body is read only for a PR of the user
CIS_analyze_pr_contribution(pr) ==
    IF pr.outcome # "ok" THEN None
    ELSE IF pr.pr_author_is_user /\ pr.body = NullBody THEN None
    ELSE LET substantive_comments ==
                 IF pr.comments_fetched THEN pr.comments_count ELSE 0
             is_self_directed ==
                 pr.pr_author_is_user /\ MentionsOwnIssue(pr.body)
             substance_score ==
                 CIS_calculate_substance_score(pr.files, pr.files.keywords)
             quality_multiplier ==
                 CIS_calculate_quality_multiplier(pr.test_files_touched)
             community_multiplier ==
                 CIS_calculate_community_multiplier(pr.repo_stars,
                                                    substantive_comments)
             initiative_multiplier ==
                 CIS_calculate_initiative_multiplier(is_self_directed)
         IN  [contribution_type |->
                  IF is_self_directed THEN "self_directed_cycle"
                  ELSE "external_pr",
              substance_score |-> substance_score,
              quality_multiplier |-> quality_multiplier,
              community_multiplier |-> community_multiplier,
              initiative_multiplier |-> initiative_multiplier,
              cis_score |->
                  substance_score * quality_multiplier
                      * community_multiplier * initiative_multiplier,
              weighted_lines |->
                  pr.files.code_lines * 10 + pr.files.config_lines * 5
                      + pr.files.doc_lines * 2,
              complexity_factor |-> 10 + pr.files.keywords]

\* ------------------------------------------------------------------------
\* Contribution scoring: inputs
\* ------------------------------------------------------------------------

\* longest list of merged PRs, of work cycles and of owner commits that a
\* collection run is given
MaxCandidates == 2

\* a PR as EnhancedCISCalculator reads it
EnhancedPR(outcome, files, popular) ==
    [url |-> "pull/1", created_at |-> 1,
     outcome |-> outcome, files |-> files,
     comments_count |-> IF popular THEN 3 ELSE 0,
     comments_available |-> TRUE, reactions_available |-> TRUE,
     reactions_count |-> IF popular THEN 5 ELSE 0,
     repo_stars |-> IF popular THEN 1500 ELSE 0,
     repo_forks |-> IF popular THEN 200 ELSE 0]

\* files of three kinds of change: nothing that counts (only excluded
\* files or empty patches), one line of documentation, ten lines of code
\* with two complexity keywords
NoMeaningfulLines ==
    [code_lines |-> 0, config_lines |-> 0, doc_lines |-> 0, keywords |-> 0]

OneDocLine ==
    [code_lines |-> 0, config_lines |-> 0, doc_lines |-> 1, keywords |-> 0]

TenCodeLines ==
    [code_lines |-> 10, config_lines |-> 0, doc_lines |-> 0, keywords |-> 2]

\* the PR or commit `item` as found at html_url `url`, created on day
\* `created_at`
At(item, url, created_at) ==
    [item EXCEPT !.url = url, !.created_at = created_at]

\* the PRs a collection run meets, each with its own html_url: one that
\* cannot be analysed, and four that can, two of them with the same
\* change made on different days
CollectedPRInputs ==
    {At(EnhancedPR("error", NoMeaningfulLines, FALSE), "pull/1", 1),
     At(EnhancedPR("ok", NoMeaningfulLines, TRUE), "pull/2", 2),
     At(EnhancedPR("ok", OneDocLine, FALSE), "pull/3", 3),
     At(EnhancedPR("ok", TenCodeLines, TRUE), "pull/4", 4),
     At(EnhancedPR("ok", TenCodeLines, TRUE), "pull/5", 5)}

\* the owner commits a collection run meets, all in a repository with more
\* than 1000 stars: a merge or trivial commit, and two scored ones
CollectedCommitInputs ==
    {At(EnhancedPR("skipped", NoMeaningfulLines, TRUE), "commit/a", 1),
     At(EnhancedPR("ok", NoMeaningfulLines, TRUE), "commit/b", 2),
     At(EnhancedPR("ok", TenCodeLines, TRUE), "commit/c", 3)}

\* lists of at most n items of a set
ListsUpTo(S, n) == UNION {[1..k -> S] : k \in 0..n}

\* those in which no item is listed twice: what one search or one listing
\* of commits returns
DistinctListsUpTo(S, n) ==
    {list \in ListsUpTo(S, n) :
        \A i, j \in 1..Len(list) : list[i] = list[j] => i = j}

\* the descriptions a PR carries: none, an empty one, one that names an
\* issue it fixes or closes, one that names none
BodyInputs == {NullBody, "", "Fixes #12", "closes #7", "Adds a cache"}

\* a PR as ContributionImpactScorer reads it
CISPRInputs ==
    {[outcome |-> "error", files |-> NoMeaningfulLines,
      test_files_touched |-> FALSE, repo_stars |-> 0, comments_count |-> 0,
      comments_fetched |-> TRUE, body |-> "", pr_author_is_user |-> TRUE]}
    \cup
    [outcome : {"ok"}, files : FilesInputs, test_files_touched : BOOLEAN,
     repo_stars : StarCounts, comments_count : CommentCounts,
     comments_fetched : BOOLEAN, body : BodyInputs,
     pr_author_is_user : BOOLEAN]

\* a PR as EnhancedCISCalculator._analyze_pr_contribution reads it, with
\* the comments or the reactions possibly out of reach
EnhancedPRInputs ==
    {[EnhancedPR(outcome, files, TRUE) EXCEPT
          !.comments_available = av[1], !.reactions_available = av[2]] :
        outcome \in {"ok", "error"},
        files \in {NoMeaningfulLines, OneDocLine, TenCodeLines},
        av \in BOOLEAN \X BOOLEAN}

\* ------------------------------------------------------------------------
\* Contribution scoring: operations
\* ------------------------------------------------------------------------

\* EnhancedCISCalculator.calculate_cis_score is called and returns
CalculateCisScore ==
    /\ scoring_op = "idle"
    /\ \E files \in FilesInputs, comments_count \in CappedCommentCounts,
          reactions_count \in CappedReactionCounts,
          repo_stars \in CappedStarCounts, repo_forks \in CappedForkCounts,
          is_self_directed \in BOOLEAN :
           /\ cis_breakdown' =
                  Enhanced_calculate_cis_score(files, comments_count,
                                               reactions_count, repo_stars,
                                               repo_forks, is_self_directed)
           /\ scoring_input' =
                  [files |-> files, comments_count |-> comments_count,
                   reactions_count |-> reactions_count,
                   repo_stars |-> repo_stars, repo_forks |-> repo_forks,
                   is_self_directed |-> is_self_directed]
    /\ scoring_op' = "calculate_cis_score"
    /\ UNCHANGED <<significant, analysis, geekVars, assessVars,
                   sharedVars>>

\* ContributionImpactScorer.analyze_pr_contribution is called and returns
AnalyzePrContribution ==
    /\ scoring_op = "idle"
    /\ \E pr \in CISPRInputs :
           /\ cis_breakdown' = CIS_analyze_pr_contribution(pr)
           /\ scoring_input' = pr
    /\ scoring_op' = "analyze_pr_contribution"
    /\ UNCHANGED <<significant, analysis, geekVars, assessVars,
                   sharedVars>>

\* EnhancedCISCalculator.find_significant_contributions is called with
\* max_contributions = MaxContributions and returns
FindSignificantContributions ==
    /\ scoring_op = "idle"
    /\ \E search_results \in
              DistinctListsUpTo(CollectedPRInputs, MaxCandidates),
          cycles \in
              DistinctListsUpTo(CollectedPRInputs,
                                Min(MaxCandidates, MaxContributions \div 2)),
          commits \in
              DistinctListsUpTo(CollectedCommitInputs, MaxCandidates) :
           /\ significant' =
                  Enhanced_find_significant_contributions(
                      search_results, cycles, commits, MaxContributions)
           /\ scoring_input' =
                  [search_results |-> search_results, cycles |-> cycles,
                   commits |-> commits]
    /\ scoring_op' = "find_significant_contributions"
    /\ UNCHANGED <<cis_breakdown, analysis, geekVars, assessVars,
                   sharedVars>>

\* EnhancedCISCalculator._analyze_pr_contribution is called and returns
EnhancedAnalyzePrContribution ==
    /\ scoring_op = "idle"
    /\ \E pr \in EnhancedPRInputs, is_self_directed \in BOOLEAN :
           /\ cis_breakdown' =
                  LET contribution ==
                          Enhanced_analyze_pr_contribution(pr,
                                                           is_self_directed)
                  IN  IF contribution = None THEN None
                      ELSE contribution.breakdown
           /\ scoring_input' = [pr |-> pr,
                                is_self_directed |-> is_self_directed]
    /\ scoring_op' = "_analyze_pr_contribution"
    /\ UNCHANGED <<significant, analysis, geekVars, assessVars,
                   sharedVars>>

\* the caller has taken the outcome of the scoring call
ScoringReturn ==
    /\ scoring_op # "idle"
    /\ scoring_op' = "idle"
    /\ cis_breakdown' = NoBreakdown
    /\ significant' = <<>>
    /\ scoring_input' = NoInput
    /\ analysis' = NoAnalysis
    /\ UNCHANGED <<geekVars, assessVars,
                   sharedVars>>

\* ------------------------------------------------------------------------
\* Maintainer mode: the hybrid analyzers
\* ------------------------------------------------------------------------

\* any(indicator in message.lower()
\*     for indicator in ['merge', 'pull request', 'pr #'])
IsMergeMessage(message) ==
    message \in {"Merge pull request #4 from fork/topic", "Merge branch main"}

\* ImprovedHybridAnalyzer._detect_maintainer_mode(candidates): the ratio
\* merge_indicators / total_candidates > 0.7, taken as 10 * merges > 7 *
\* total (k * 7 / (k * 10) is the same float as the literal 0.7)
Improved_detect_maintainer_mode(candidates) ==
    IF candidates = <<>> THEN FALSE
    ELSE LET merge_indicators ==
                 Cardinality({i \in 1..Len(candidates) :
                                 IsMergeMessage(candidates[i].message)})
             total_candidates == Len(candidates)
         IN  10 * merge_indicators > 7 * total_candidates

\* sorted(projects, key=lambda p: p[key], reverse=True): stable
RECURSIVE InsertProject(_, _, _)
InsertProject(sorted, project, key) ==
    IF sorted = <<>> THEN <<project>>
    ELSE IF Head(sorted)[key] >= project[key]
         THEN <<Head(sorted)>> \o InsertProject(Tail(sorted), project, key)
         ELSE <<project>> \o sorted

RECURSIVE SortProjects(_, _)
SortProjects(projects, key) ==
    IF projects = <<>> THEN <<>>
    ELSE InsertProject(SortProjects(SubSeq(projects, 1, Len(projects) - 1),
                                    key),
                       projects[Len(projects)], key)

\* the loop of the maintainer g-index over the projects in order, entered
\* at rank i with g_index = g; the impact scores are in hundredths
RECURSIVE ProjectScan(_, _, _)
ProjectScan(projects, i, g) ==
    IF i > Len(projects) THEN g
    ELSE IF projects[i].impact_score >= 100 * i
         THEN ProjectScan(projects, i + 1, i)
         ELSE g

\* ImprovedHybridAnalyzer._analyze_maintainer_contributions: the first five
\* owned repositories in the order of the API (by stars), sorted by stars,
\* each with impact_score = math.log(stars + 1)
Improved_analyze_maintainer_contributions(repos) ==
    LET major_projects == Take(repos, 5)
        projects_by_stars == SortProjects(major_projects, "stars")
        scored ==
            [i \in 1..Len(projects_by_stars) |->
                [stars |-> projects_by_stars[i].stars,
                 impact_score |->
                     Ln(100 * (projects_by_stars[i].stars + 1))]]
    IN  [analysis_type |-> "maintainer_leadership",
         g_index |-> ProjectScan(scored, 1, 0),
         major_projects |-> major_projects]

\* ImprovedHybridAnalyzer.analyze_contributor: candidates is what
\* _phase1_triage found, deep_results what _phase2_deep_dive scores
Improved_analyze_contributor(candidates, repos, deep_results) ==
    IF Improved_detect_maintainer_mode(candidates)
    THEN Improved_analyze_maintainer_contributions(repos)
    ELSE [analysis_type |-> "standard",
          g_index |-> Improved_final_analysis(deep_results).g_index]

\* OptimizedHybridAnalyzer._analyze_as_maintainer(major_repos): each
\* project with impact_score = math.log(stars + 1) * 2, sorted by it
Optimized_analyze_as_maintainer(major_repos) ==
    LET projects ==
            [i \in 1..Len(major_repos) |->
                [stars |-> major_repos[i].stars,
                 impact_score |-> Ln(100 * (major_repos[i].stars + 1)) * 2]]
        sorted == SortProjects(projects, "impact_score")
    IN  [analysis_type |-> "maintainer_leadership",
         g_index |-> ProjectScan(sorted, 1, 0),
         major_projects |-> major_repos]

\* OptimizedHybridAnalyzer.analyze_contributor: the first ten owned
\* repositories; contributions is what the two later phases find
Optimized_analyze_contributor(repos, found_contributions, max_contributions) ==
    LET user_repos == Take(repos, 10)
        major_repos == SelectSeq(user_repos, LAMBDA r : r.stars > 1000)
    IN  IF major_repos # <<>>
        THEN Optimized_analyze_as_maintainer(major_repos)
        ELSE [analysis_type |-> "standard",
              g_index |->
                  IF found_contributions = <<>> THEN 0
                  ELSE Optimized_calculate_g_index(
                           Take(SortByScoreDesc(found_contributions),
                                max_contributions)).geek_index]

\* longest list of activity items and of owned repositories of a candidate
MaxActivity == 10

MaxProjects == 3

\* a candidate's visible activity: merges first, then authored changes
ActivityList(m, k) ==
    [i \in 1..(m + k) |->
        [message |-> IF i <= m THEN "Merge pull request #4 from fork/topic"
                     ELSE "feat: add cache"]]

ActivityInputs ==
    {ActivityList(p[1], p[2]) :
        p \in {q \in (0..MaxActivity) \X (0..MaxActivity) :
                  q[1] + q[2] <= MaxActivity}}

\* owned repositories as the API lists them, by stars descending
ProjectStars == {1, 200, 1500}

OwnedRepoInputs ==
    {repos \in UNION {[1..n -> [stars : ProjectStars]] : n \in 0..MaxProjects} :
        \A i \in 1..(Len(repos) - 1) : repos[i].stars >= repos[i + 1].stars}

\* the scored contributions the standard analysis ends with
StandardResultInputs == {<<>>, <<[cis_score |-> 4]>>}

\* ImprovedHybridAnalyzer.analyze_contributor is called and returns
ImprovedAnalyzeContributor ==
    /\ scoring_op = "idle"
    /\ \E candidates \in ActivityInputs, repos \in OwnedRepoInputs,
          deep_results \in StandardResultInputs :
           /\ analysis' = Improved_analyze_contributor(candidates, repos,
                                                       deep_results)
           /\ scoring_input' = [candidates |-> candidates, repos |-> repos,
                                results |-> deep_results]
    /\ scoring_op' = "ImprovedHybridAnalyzer.analyze_contributor"
    /\ UNCHANGED <<cis_breakdown, significant, geekVars, assessVars,
                   sharedVars>>

\* OptimizedHybridAnalyzer.analyze_contributor is called for a candidate
\* with that activity and returns
OptimizedAnalyzeContributor ==
    /\ scoring_op = "idle"
    /\ \E candidates \in ActivityInputs, repos \in OwnedRepoInputs,
          found_contributions \in StandardResultInputs :
           /\ analysis' = Optimized_analyze_contributor(
                              repos, found_contributions, MaxContributions)
           /\ scoring_input' = [candidates |-> candidates, repos |-> repos,
                                results |-> found_contributions]
    /\ scoring_op' = "OptimizedHybridAnalyzer.analyze_contributor"
    /\ UNCHANGED <<cis_breakdown, significant, geekVars, assessVars,
                   sharedVars>>

\* ------------------------------------------------------------------------
\* One scorer shared by several candidates
\* ------------------------------------------------------------------------

\* most candidates whose scoring is in progress at the same time
MaxParallel == 2

Candidates == 1..MaxParallel

\* the attributes _init_scoring_parameters gives a FoundingEngineerScorer
\* and a scoring method reads (risk_thresholds and strength_indicators are
\* set as well and read by no method)
FoundingEngineerScorer ==
    [category_weights |-> category_weights,
     recommendation_thresholds |-> recommendation_thresholds]

\* no scoring call is in progress for a candidate
NoJob == [pc |-> "idle"]

\* (a variant of the next definition that leaves on the instance the
\* weights rebalanced for the scores just seen)
Shared_calculate_overall_score_rebalancing(instance, scores) ==
    LET weighted_score[k \in 0..Len(CategoryOrder)] ==
            IF k = 0 THEN 0
            ELSE weighted_score[k - 1]
                     + scores[CategoryOrder[k]]
                           * instance.category_weights[CategoryOrder[k]]
    IN  [instance |->
             [instance EXCEPT !.category_weights =
                 IF scores["technical_proficiency"]
                        < scores["engineering_craftsmanship"]
                 THEN category_weights_exchanged
                 ELSE @],
         returned |-> weighted_score[Len(CategoryOrder)]]

\* calculate_overall_score(category_scores) run on the shared instance,
\* all four categories given: the instance afterwards and the value
\* returned
Shared_calculate_overall_score(instance, scores) ==
    LET weighted_score[k \in 0..Len(CategoryOrder)] ==
            IF k = 0 THEN 0
            ELSE weighted_score[k - 1]
                     + scores[CategoryOrder[k]]
                           * instance.category_weights[CategoryOrder[k]]
    IN  [instance |-> instance,
         returned |-> weighted_score[Len(CategoryOrder)]]

\* determine_recommendation(overall_score, risk_factors) run on the shared
\* instance: the instance afterwards and the value returned
Shared_determine_recommendation(instance, score, risks) ==
    LET thresholds == instance.recommendation_thresholds
        critical == SelectSeq(risks, LAMBDA rf : rf.severity = "CRITICAL")
        high_risks == SelectSeq(risks, LAMBDA rf : rf.severity = "HIGH")
        base_recommendation ==
            IF score >= thresholds["STRONGLY_RECOMMENDED"]
            THEN "STRONGLY_RECOMMENDED"
            ELSE IF score >= thresholds["RECOMMENDED"]
            THEN "RECOMMENDED"
            ELSE IF score >= thresholds["CONDITIONAL"]
            THEN "CONDITIONAL"
            ELSE "NOT_RECOMMENDED"
    IN  [instance |-> instance,
         returned |->
             IF critical # <<>>
             THEN [recommendation |-> "NOT_RECOMMENDED",
                   reasoning |-> "Critical risks identified"]
             ELSE IF Len(high_risks) >= 3
             THEN HighRiskAdjustment(base_recommendation)
             ELSE [recommendation |-> base_recommendation,
                   reasoning |-> BaseReasoning(base_recommendation)]]

\* what is scored for one candidate: the metrics and the activity count
\* given to score_comprehensive_assessment and the contributions given to
\* calculate_geek_index; the candidates differ in technical proficiency,
\* in craftsmanship and in their contributions
JobInputs ==
    {[m |->
          [technical_proficiency |-> t, engineering_craftsmanship |-> e,
           initiative_ownership |-> i, collaboration_style |-> c,
           data_completeness_score |-> 1000],
      count |-> 50,
      contributions |-> l] :
         t \in {x \in TechnicalProficiencyInputs : x.ai_ml_frameworks = 1},
         e \in {x \in EngineeringCraftsmanshipInputs :
                    /\ x.testing_commitment_ratio = 9
                    /\ x.structured_workflow_score = 100},
         i \in {x \in InitiativeOwnershipInputs :
                    /\ x.self_directed_work_cycles = 1
                    /\ x.personal_project_quality = 100},
         c \in {x \in CollaborationStyleInputs :
                    /\ x.work_rhythm_pattern = "IRREGULAR"
                    /\ x.mentorship_indicators = 1},
         l \in {<<>>, <<[cis_score |-> 2], [cis_score |-> 6]>>}}

\* the call in progress for candidate c
Job(c) == jobs[c]

\* some other candidate's call is between two of its steps
OthersInProgress(c) ==
    \E d \in Candidates \ {c} : jobs[d].pc \notin {"idle", "done"}

\* candidate c's call goes on to `pc` with the locals `locals` set; it is
\* noted whether another call was in progress at one of its steps
Advance(c, pc, locals) ==
    jobs' = [jobs EXCEPT ![c] =
                [k \in (DOMAIN @) \cup (DOMAIN locals) \cup {"pc"} |->
                    IF k = "pc" THEN pc
                    ELSE IF k = "interleaved"
                    THEN @[k] \/ OthersInProgress(c)
                    ELSE IF k \in DOMAIN locals THEN locals[k]
                    ELSE @[k]]]

\* score_comprehensive_assessment(metrics, activity_count) is called for
\* candidate c
BeginScoring(c) ==
    /\ Job(c).pc = "idle"
    /\ \E input \in JobInputs :
           jobs' = [jobs EXCEPT ![c] =
                       [pc |-> "categories", input |-> input,
                        interleaved |-> OthersInProgress(c)]]
    /\ UNCHANGED <<shared_scorer, geekVars, assessVars, scoringVars>>

\* the four category scorers run
ScoreCategories(c) ==
    /\ Job(c).pc = "categories"
    /\ LET m == Job(c).input.m
           tech == score_technical_proficiency(m.technical_proficiency)
           craft ==
               score_engineering_craftsmanship(m.engineering_craftsmanship)
           initiative == score_initiative_ownership(m.initiative_ownership)
           collab == score_collaboration_style(m.collaboration_style)
       IN  Advance(c, "overall",
               [category_scores |->
                    [technical_proficiency     |-> tech.score,
                     engineering_craftsmanship |-> craft.score,
                     initiative_ownership      |-> initiative.score,
                     collaboration_style       |-> collab.score],
                found_strengths |->
                    tech.strengths \o craft.strengths
                        \o initiative.strengths \o collab.strengths,
                found_risks |->
                    tech.risk_factors \o craft.risk_factors
                        \o initiative.risk_factors \o collab.risk_factors])
    /\ UNCHANGED <<shared_scorer, geekVars, assessVars, scoringVars>>

\* calculate_overall_score runs on the shared instance
AggregateScores(c) ==
    /\ Job(c).pc = "overall"
    /\ LET done ==
               Shared_calculate_overall_score(shared_scorer,
                                              Job(c).category_scores)
       IN  /\ shared_scorer' = done.instance
           /\ Advance(c, "rank", [overall_score |-> done.returned])
    /\ UNCHANGED <<geekVars, assessVars, scoringVars>>

\* the strengths and the risks are concatenated and sorted
RankFindings(c) ==
    /\ Job(c).pc = "rank"
    /\ Advance(c, "recommend",
               [all_strengths |-> SortStrengths(Job(c).found_strengths),
                all_risks |-> SortRisks(Job(c).found_risks)])
    /\ UNCHANGED <<shared_scorer, geekVars, assessVars, scoringVars>>

\* determine_recommendation runs on the shared instance, the confidence is
\* calculated and the AssessmentResult is made
Recommend(c) ==
    /\ Job(c).pc = "recommend"
    /\ LET done ==
               Shared_determine_recommendation(shared_scorer,
                                               Job(c).overall_score,
                                               Job(c).all_risks)
           confidence ==
               calculate_confidence_level(
                   Job(c).input.count,
                   Job(c).input.m.data_completeness_score)
       IN  /\ shared_scorer' = done.instance
           /\ Advance(c, "geek_index",
                  [result |->
                       [category_scores |-> Job(c).category_scores,
                        overall_score |-> Job(c).overall_score,
                        all_risks |-> Job(c).all_risks,
                        all_strengths |-> Job(c).all_strengths,
                        recommendation |-> done.returned.recommendation,
                        hiring_recommendation |-> done.returned.reasoning,
                        confidence_level |-> confidence,
                        top_strengths |-> Take(Job(c).all_strengths, 5),
                        critical_risks |->
                            SelectSeq(Job(c).all_risks,
                                      LAMBDA r :
                                          r.severity
                                              \in {"CRITICAL", "HIGH"})]])
    /\ UNCHANGED <<geekVars, assessVars, scoringVars>>

\* EnhancedCISCalculator.calculate_geek_index runs over the candidate's
\* contributions
IndexContributions(c) ==
    /\ Job(c).pc = "geek_index"
    /\ Advance(c, "done",
               [geek_index |->
                    Enhanced_calculate_geek_index(
                        Job(c).input.contributions).geek_index])
    /\ UNCHANGED <<shared_scorer, geekVars, assessVars, scoringVars>>

\* the caller takes the candidate's results
FinishScoring(c) ==
    /\ Job(c).pc = "done"
    /\ jobs' = [jobs EXCEPT ![c] = NoJob]
    /\ UNCHANGED <<shared_scorer, geekVars, assessVars, scoringVars>>

\* ------------------------------------------------------------------------
\* Initial state
\* ------------------------------------------------------------------------

InitAssessment ==
    /\ op = "idle"
    /\ metrics = NoMetrics
    /\ activity_count = 0
    /\ category_scores = <<>>
    /\ overall_score = 0
    /\ risk_factors = <<>>
    /\ strengths = <<>>
    /\ recommendation = Nothing
    /\ confidence_level = 0
    /\ hiring_recommendation = Nothing
    /\ critical_risks = <<>>
    /\ raised = Nothing

InitGeekIndex ==
    /\ analyzer \in Analyzers
    /\ found = <<>>
    /\ contributions = <<>>
    /\ geek_index = 0
    /\ summary = NoSummary

InitScoring ==
    /\ scoring_op = "idle"
    /\ cis_breakdown = NoBreakdown
    /\ significant = <<>>
    /\ scoring_input = NoInput
    /\ analysis = NoAnalysis

InitShared ==
    /\ shared_scorer = FoundingEngineerScorer
    /\ jobs = [c \in Candidates |-> NoJob]

Init == InitGeekIndex /\ InitAssessment /\ InitScoring /\ InitShared

NextGeekIndex ==
    \/ Collect
    \/ RemoveTop
    \/ Reorder

SpecGeekIndex == Init /\ [][NextGeekIndex]_vars

NextAssessment ==
    \/ CalculateOverallScore
    \/ DetermineRecommendation
    \/ ScoreComprehensiveAssessment
    \/ GenerateComprehensiveReview
    \/ CalculateConfidenceLevel
    \/ ScoreTechnicalProficiency
    \/ ScoreEngineeringCraftsmanship
    \/ ScoreInitiativeOwnership
    \/ ScoreCollaborationStyle
    \/ Return

\* the assessment track alone, for one fixed geek-index analyzer
InitAssessmentOnly == Init /\ analyzer = "EnhancedCISCalculator"

SpecAssessment == InitAssessmentOnly /\ [][NextAssessment]_vars

NextScoring ==
    \/ CalculateCisScore
    \/ AnalyzePrContribution
    \/ EnhancedAnalyzePrContribution
    \/ FindSignificantContributions
    \/ ScoringReturn

NextMaintainer ==
    \/ ImprovedAnalyzeContributor
    \/ OptimizedAnalyzeContributor
    \/ ScoringReturn

\* the hybrid analyzers alone
SpecMaintainer == InitAssessmentOnly /\ [][NextMaintainer]_vars

NextShared ==
    \E c \in Candidates :
        \/ BeginScoring(c)
        \/ ScoreCategories(c)
        \/ AggregateScores(c)
        \/ RankFindings(c)
        \/ Recommend(c)
        \/ IndexContributions(c)
        \/ FinishScoring(c)

\* the calls for the candidates take their steps in any order
SpecShared == InitAssessmentOnly /\ [][NextShared]_vars

\* the contribution-scoring track alone
SpecScoring == InitAssessmentOnly /\ [][NextScoring]_vars


\* ------------------------------------------------------------------------
\* Geek index: properties
\* ------------------------------------------------------------------------

\* the score of each item of a list that carries one
ScoresOf(list) == [i \in Scored(list) |-> list[i].cis_score]

\* the h-index of a list of scores by its definition: the largest i such
\* that at least i scores are >= i, which is the largest rank i with
\* s_i >= i in the descending order s_1 >= s_2 >= ...
HIndex(list) ==
    LET s == ScoresOf(list)
        AtLeast(i) == {k \in DOMAIN s : s[k] >= Rank(i)}
        Qualifies == {i \in 0..Len(list) : Cardinality(AtLeast(i)) >= i}
    IN  CHOOSE i \in Qualifies : \A j \in Qualifies : j <= i

\* the scores 9.0, 7.5, 5.0, 1.0
ExampleScores ==
    <<[cis_score |-> 18], [cis_score |-> 15],
      [cis_score |-> 10], [cis_score |-> 2]>>

\* C1: whatever list a geek-index routine is run over, the index it returns
\* is the h-index of the scores, max{i : s_i >= i} over the descending
\* order (0 when no rank qualifies); the scores 9.0, 7.5, 5.0, 1.0 give 3.
C1_GeekIndexIsHIndex ==
    /\ geek_index = HIndex(found)
    /\ found = ExampleScores => geek_index = 3

\* the example list has been scored by a routine
C1_Witness ==
    /\ found = ExampleScores
    /\ analyzer = "EnhancedCISCalculator"
    /\ geek_index = 3

\* the step collects one more scored contribution
IsAppend ==
    /\ Len(found') = Len(found) + 1
    /\ SubSeq(found', 1, Len(found)) = found
    /\ found'[Len(found')] # None

\* the list without its last item
Front(list) == SubSeq(list, 1, Len(list) - 1)

\* the original list holds at least g contributions scoring >= g + 1,
\* where g is its geek index
TopAlreadyAbove ==
    Cardinality({k \in Scored(found) :
                    found[k].cis_score >= Rank(geek_index + 1)})
        >= geek_index

\* the step appends a contribution scoring >= g + 1
IsHighAppend ==
    /\ IsAppend
    /\ found'[Len(found')].cis_score >= Rank(geek_index + 1)

\* C7 as stated: appending a contribution whose score is >= g + 1 to a list
\* whose geek index is g and recomputing gives exactly g + 1.
C7_Original ==
    [][IsHighAppend => geek_index' = geek_index + 1]_vars

\* C7: appending a contribution whose score is >= g + 1 to a list whose
\* geek index is g and recomputing gives g + 1 when at least g contributions
\* of the original list score >= g + 1, and g otherwise.
C7_AppendHighScore ==
    [][IsHighAppend =>
          geek_index' = IF TopAlreadyAbove THEN geek_index + 1
                        ELSE geek_index]_vars

\* the last contribution collected scored at least one more than the index
\* before it, and the index went from 2 to 3
C7_Witness ==
    /\ Len(found) >= 3
    /\ found[Len(found)] # None
    /\ RunGeekIndex(analyzer, Front(found)).geek_index = 2
    /\ found[Len(found)].cis_score >= Rank(3)
    /\ geek_index = 3

\* C8: adding a contribution with any score >= 0 never decreases the geek
\* index recomputed over the extended list.
C8_AppendNeverDecreases ==
    [][IsAppend => geek_index' >= geek_index]_vars

\* the last contribution collected has a score below the first rank and
\* the index stayed at a positive value
C8_Witness ==
    /\ Len(found) >= 3
    /\ found[Len(found)] # None
    /\ found[Len(found)].cis_score < Rank(1)
    /\ geek_index >= 2
    /\ RunGeekIndex(analyzer, Front(found)).geek_index = geek_index

\* the step withdraws the single highest-scoring contribution
IsRemoveTop ==
    /\ Scored(found) # {}
    /\ found' = RemoveAt(found, TopIndex(found))

\* C9: removing the single highest-scoring contribution of a non-empty
\* list with geek index g and recomputing gives at least g - 1.
C9_RemoveTopDropsAtMostOne ==
    [][IsRemoveTop => geek_index' >= geek_index - 1]_vars

\* a list whose index is at least 2 and drops by one when its top
\* contribution is removed
C9_Witness ==
    /\ Scored(found) # {}
    /\ geek_index >= 2
    /\ RunGeekIndex(analyzer, RemoveAt(found, TopIndex(found))).geek_index
           = geek_index - 1

\* the number of positions of list that hold x
Count(list, x) == Cardinality({i \in 1..Len(list) : list[i] = x})

\* the step hands the routine the same multiset in another order
IsPermutation ==
    /\ found' # found
    /\ Len(found') = Len(found)
    /\ \A i \in 1..Len(found) : Count(found', found[i]) = Count(found, found[i])

\* C10: the geek index depends only on the multiset of scores: handing a
\* routine the same contributions in another order never changes it.
C10_PermutationInvariant ==
    [][IsPermutation => geek_index' = geek_index]_vars

\* a list holding two contributions of equal score next to a different one,
\* with a positive index: reordering it moves equal-score contributions
C10_Witness ==
    /\ geek_index >= 2
    /\ \E i, j \in 1..Len(found) :
           /\ i # j
           /\ found[i] = found[j]
    /\ \E i \in 1..(Len(found) - 1) : found[i] # found[i + 1]

\* the routine has been run and ranked no contribution at all
RanOverNothing == summary # NoSummary /\ contributions = <<>>

\* the name under which a summary reports the mean score
MeanKeys == {"average_cis_score", "avg_cis_score"}

\* the summary s reports a mean score, and it is m
ReportsMean(s, m) == \E k \in MeanKeys \cap DOMAIN s : s[k] = m

\* C12: with zero contributions (none found, every analysis failed, or all
\* filtered out) ContributionImpactScorer.calculate_geek_index and
\* EnhancedCISCalculator.calculate_geek_index return geek index 0 with a
\* contribution count of 0 and a mean score of 0
C12_EmptyInputGivesZeroes ==
    (/\ RanOverNothing
     /\ analyzer \in {"ContributionImpactScorer", "EnhancedCISCalculator"})
        => /\ geek_index = 0
           /\ summary.total_contributions = 0
           /\ ReportsMean(summary, 0)

\* ------------------------------------------------------------------------
\* Contribution scoring: properties
\* ------------------------------------------------------------------------

\* the contributions scored by the last call of the scoring track: the one
\* whose breakdown was returned, and those of the list that was returned
\* (each taken as its breakdown with the score recorded for it)
ScoredBreakdowns ==
    (IF cis_breakdown \in {NoBreakdown, None} THEN {} ELSE {cis_breakdown})
    \cup {significant[i].breakdown : i \in 1..Len(significant)}

\* the final score recorded for a scored contribution
FinalScore(b) ==
    IF "final_cis_score" \in DOMAIN b THEN b.final_cis_score
    ELSE b.cis_score

\* C11: no contribution whose final score is 0 appears in the ranked
\* contribution list: none is returned, whatever its type, by
\* EnhancedCISCalculator.find_significant_contributions (the filter of
\* ContributionImpactScorer.calculate_geek_index is part of
\* CIS_calculate_geek_index)
C11_NoZeroScoreIsRanked ==
    \A i \in 1..Len(significant) : significant[i].cis_score > 0

\* C18: for every scored contribution of every type the final score
\* recorded equals substance score * quality multiplier * community
\* multiplier * initiative multiplier of its own breakdown
C18_FinalScoreIsProductOfFactors ==
    /\ \A b \in ScoredBreakdowns :
           FinalScore(b) =
               b.substance_score * b.quality_multiplier
                   * b.community_multiplier * b.initiative_multiplier
    /\ \A i \in 1..Len(significant) :
           significant[i].cis_score = FinalScore(significant[i].breakdown)

\* C19: a contribution whose weighted line count is 0 has substance score
\* 0 and final score 0 whatever its keywords and multipliers are, and a
\* final score of 0 occurs only with a substance score of 0
C19_ZeroLinesZeroScore ==
    \A b \in ScoredBreakdowns :
        /\ b.weighted_lines = 0
               => b.substance_score = 0 /\ FinalScore(b) = 0
        /\ FinalScore(b) = 0 => b.substance_score = 0

\* a change without a meaningful line, full of keywords, self-directed, in
\* a popular repository with a discussed PR, has been scored 0
C19_Witness ==
    /\ scoring_op = "calculate_cis_score"
    /\ cis_breakdown.weighted_lines = 0
    /\ cis_breakdown.complexity_factor > 10
    /\ cis_breakdown.quality_multiplier > 100
    /\ cis_breakdown.community_multiplier > 100
    /\ cis_breakdown.initiative_multiplier = 2
    /\ cis_breakdown.final_cis_score = 0

\* ------------------------------------------------------------------------
\* Assessment: properties
\* ------------------------------------------------------------------------

\* an overall score has been computed from the four category scores
OverallScored ==
    /\ op \in {"calculate_overall_score", "score_comprehensive_assessment",
               "generate_comprehensive_review"}
    /\ raised = Nothing
    /\ DOMAIN category_scores = Categories

\* the category scores 80, 60, 90, 50
ExampleCategoryScores ==
    [technical_proficiency     |-> Points(80),
     engineering_craftsmanship |-> Points(60),
     initiative_ownership      |-> Points(90),
     collaboration_style       |-> Points(50)]

\* C2: the overall score is technical * 0.30 + craftsmanship * 0.25
\* + initiative * 0.30 + collaboration * 0.15; the category scores 80, 60,
\* 90, 50 give 73.5.
C2_OverallScoreIsWeightedSum ==
    /\ OverallScored =>
           overall_score =
               category_scores["technical_proficiency"] * 30
             + category_scores["engineering_craftsmanship"] * 25
             + category_scores["initiative_ownership"] * 30
             + category_scores["collaboration_style"] * 15
    /\ (OverallScored /\ category_scores = ExampleCategoryScores) =>
           2 * overall_score = OverallPoints(147)

\* calculate_overall_score has returned 73.5 for the example
C2_Witness ==
    /\ op = "calculate_overall_score"
    /\ category_scores = ExampleCategoryScores
    /\ 2 * overall_score = OverallPoints(147)

\* a recommendation has been determined
Recommended ==
    /\ op \in {"determine_recommendation", "score_comprehensive_assessment",
               "generate_comprehensive_review"}
    /\ raised = Nothing

\* the number of risks of severity sev in the risk list
SeverityCount(sev) ==
    Cardinality({i \in 1..Len(risk_factors) : risk_factors[i].severity = sev})

\* C3: with no Critical risk and fewer than three High risks, the
\* recommendation is StronglyRecommended iff score >= 80, Recommended iff
\* 65 <= score < 80, Conditional iff 45 <= score < 65 and NotRecommended
\* iff score < 45.
C3_ThresholdBands ==
    (Recommended /\ SeverityCount("CRITICAL") = 0 /\ SeverityCount("HIGH") < 3)
        => /\ recommendation = "STRONGLY_RECOMMENDED"
                  <=> overall_score >= OverallPoints(80)
           /\ recommendation = "RECOMMENDED"
                  <=> /\ overall_score >= OverallPoints(65)
                      /\ overall_score < OverallPoints(80)
           /\ recommendation = "CONDITIONAL"
                  <=> /\ overall_score >= OverallPoints(45)
                      /\ overall_score < OverallPoints(65)
           /\ recommendation = "NOT_RECOMMENDED"
                  <=> overall_score < OverallPoints(45)

\* determine_recommendation has returned Conditional for a score of exactly
\* 45 with two High risks and no Critical one
C3_Witness ==
    /\ op = "determine_recommendation"
    /\ overall_score = OverallPoints(45)
    /\ SeverityCount("CRITICAL") = 0
    /\ SeverityCount("HIGH") = 2
    /\ recommendation = "CONDITIONAL"

\* the band of a score by the thresholds 80, 65, 45
Band(score) ==
    IF score >= OverallPoints(80) THEN "STRONGLY_RECOMMENDED"
    ELSE IF score >= OverallPoints(65) THEN "RECOMMENDED"
    ELSE IF score >= OverallPoints(45) THEN "CONDITIONAL"
    ELSE "NOT_RECOMMENDED"

\* the tier one below a tier
OneTierBelow(level) ==
    IF level = "STRONGLY_RECOMMENDED" THEN "RECOMMENDED"
    ELSE IF level = "RECOMMENDED" THEN "CONDITIONAL"
    ELSE "NOT_RECOMMENDED"

\* C4: with no Critical risk and three or more High risks, the
\* recommendation is the tier exactly one below the band of the score:
\* StronglyRecommended becomes Recommended, Recommended becomes Conditional,
\* Conditional becomes NotRecommended, NotRecommended stays.
C4_HighRisksDowngradeOneTier ==
    (Recommended /\ SeverityCount("CRITICAL") = 0 /\ SeverityCount("HIGH") >= 3)
        => recommendation = OneTierBelow(Band(overall_score))

\* C5: whenever the risk list holds a Critical risk the recommendation is
\* NotRecommended, for every score and any number of High risks.
C5_CriticalForcesNotRecommended ==
    (Recommended /\ SeverityCount("CRITICAL") >= 1)
        => recommendation = "NOT_RECOMMENDED"

\* determine_recommendation has returned NotRecommended for a score of 100
\* with one Critical risk and three High ones
C5_Witness ==
    /\ op = "determine_recommendation"
    /\ overall_score = OverallPoints(100)
    /\ SeverityCount("CRITICAL") = 1
    /\ SeverityCount("HIGH") = 3
    /\ recommendation = "NOT_RECOMMENDED"

\* C6: a scoring run for a candidate with no activity at all (activity
\* count 0) raises no exception and gives the recommendation
\* InsufficientData, whatever the category scores are.
C6_NoActivityInsufficientData ==
    (/\ op \in {"score_comprehensive_assessment",
                "generate_comprehensive_review"}
     /\ activity_count = 0)
        => /\ raised = Nothing
           /\ recommendation = "INSUFFICIENT_DATA"

\* C13: a score of 80 or more with no Critical risk and three or more High
\* risks gives exactly the recommendation Recommended.
C13_StrongWithHighRisksIsRecommended ==
    (/\ Recommended
     /\ overall_score >= OverallPoints(80)
     /\ SeverityCount("CRITICAL") = 0
     /\ SeverityCount("HIGH") >= 3)
        => recommendation = "RECOMMENDED"

\* determine_recommendation has returned Recommended for a score of exactly
\* 80 with three High risks, one Medium risk and no Critical one
C13_Witness ==
    /\ op = "determine_recommendation"
    /\ overall_score = OverallPoints(80)
    /\ SeverityCount("CRITICAL") = 0
    /\ SeverityCount("HIGH") = 3
    /\ SeverityCount("MEDIUM") = 1
    /\ recommendation = "RECOMMENDED"

\* a confidence has been calculated from an activity count and a data
\* completeness
ConfidenceReturned ==
    /\ op \in {"calculate_confidence_level", "score_comprehensive_assessment",
               "generate_comprehensive_review"}
    /\ raised = Nothing

\* the activity confidence of a count, in thousandths: 1.0 from 100, 0.8
\* for 50..99, 0.6 for 20..49, 0.4 for 10..19, 0.2 below 10
ActivityConfidenceSteps(count) ==
    CASE count >= 100 -> 1000
      [] count \in 50..99 -> 800
      [] count \in 20..49 -> 600
      [] count \in 10..19 -> 400
      [] count < 10 -> 200

\* C14: calculate_confidence_level returns (a + dataCompleteness) / 2 with
\* a = 1.0 for a count of 100 or more, 0.8 for 50..99, 0.6 for 20..49, 0.4
\* for 10..19 and 0.2 below 10; for a data completeness in [0,1] the
\* confidence lies in [0,1], and it does not decrease when the activity
\* count grows.
C14_ConfidenceIsMeanOfStepAndCompleteness ==
    ConfidenceReturned
        => LET dc == metrics.data_completeness_score
           IN  /\ confidence_level = ActivityConfidenceSteps(activity_count) + dc
               /\ dc \in 0..1000 => confidence_level \in 0..2000
               /\ \A larger \in ConfidenceCountInputs :
                      larger >= activity_count
                          => calculate_confidence_level(larger, dc)
                                 >= confidence_level

\* calculate_confidence_level has returned (0.4 + 0.5) / 2 = 0.45 for 19
\* activities and a data completeness of 0.5
C14_Witness ==
    /\ op = "calculate_confidence_level"
    /\ activity_count = 19
    /\ metrics.data_completeness_score = 500
    /\ confidence_level = 900

\* the operations that return the score of a category
CategoryScorers ==
    {"score_technical_proficiency", "score_engineering_craftsmanship",
     "score_initiative_ownership", "score_collaboration_style"}

\* C15: for each of the four category scorers and every metrics bundle for
\* which a score is returned, the category score (the sum of the sub-scores
\* the scorer adds up) lies in [0,100].
C15_CategoryScoreInRange ==
    (op \in CategoryScorers \cup {"score_comprehensive_assessment"})
        => \A category \in DOMAIN category_scores :
               /\ category_scores[category] >= Points(0)
               /\ category_scores[category] <= Points(100)

\* the severities from least to most severe
SeverityRank == [LOW |-> 1, MEDIUM |-> 2, HIGH |-> 3, CRITICAL |-> 4]

\* a full scoring run has returned its result
Assessed ==
    /\ op \in {"score_comprehensive_assessment",
               "generate_comprehensive_review"}
    /\ raised = Nothing

\* C16: in the aggregated risk list built by score_comprehensive_assessment
\* the risks are ordered by severity descending (Critical, High, Medium,
\* Low) and, among risks of equal severity, by confidence descending; no
\* risk of lower severity precedes one of higher severity.
C16_RisksOrderedBySeverity ==
    Assessed
        => \A i, j \in 1..Len(risk_factors) :
               i < j
                   => \/ SeverityRank[risk_factors[i].severity]
                             > SeverityRank[risk_factors[j].severity]
                      \/ /\ risk_factors[i].severity = risk_factors[j].severity
                         /\ risk_factors[i].confidence
                                >= risk_factors[j].confidence

\* the risks the four category scorers emit for a metrics bundle
EmittedRisks(m) ==
    score_technical_proficiency(m.technical_proficiency).risk_factors
        \o score_engineering_craftsmanship(m.engineering_craftsmanship).risk_factors
        \o score_initiative_ownership(m.initiative_ownership).risk_factors
        \o score_collaboration_style(m.collaboration_style).risk_factors

\* how many times a risk occurs in a list
Occurrences(risk, list) ==
    Cardinality({i \in 1..Len(list) : list[i] = risk})

\* the members of a list
Members(list) == {list[i] : i \in 1..Len(list)}

\* C17: AssessmentResult.critical_risks contains exactly the risks emitted
\* by the four category scorers whose severity is High or Critical: every
\* such risk is included, and no Low or Medium risk is included.
C17_CriticalRisksAreHighOrCritical ==
    Assessed
        => /\ \A risk \in Members(EmittedRisks(metrics)) :
                  risk.severity \in {"HIGH", "CRITICAL"}
                      => Occurrences(risk, critical_risks)
                             = Occurrences(risk, EmittedRisks(metrics))
           /\ \A risk \in Members(critical_risks) :
                  /\ risk.severity \in {"HIGH", "CRITICAL"}
                  /\ risk \in Members(EmittedRisks(metrics))

\* a full scoring run has emitted a High, a Medium and a Low risk, and
\* critical_risks holds the High one alone
C17_Witness ==
    /\ op = "score_comprehensive_assessment"
    /\ {r.severity : r \in Members(EmittedRisks(metrics))}
           = {"HIGH", "MEDIUM", "LOW"}
    /\ Len(critical_risks) = 1
    /\ critical_risks[1].severity = "HIGH"

\* the fields of the metrics that are ratios or scores on [0,1], held in
\* percent (data_completeness_score in thousandths), and those that are
\* counts
RatioFields ==
    {"dependency_sophistication_score", "commit_issue_linking_ratio",
     "testing_commitment_ratio", "structured_workflow_score",
     "code_review_thoroughness", "personal_project_quality",
     "temporal_dedication_score", "feedback_receptiveness_score",
     "communication_clarity_score"}

CountFields ==
    {"ai_ml_frameworks", "performance_lines", "full_stack_evidence",
     "self_directed_work_cycles", "first_responder_instances",
     "open_source_contributions", "mentorship_indicators"}

\* a bundle of one category holds a negative count or a ratio outside [0,1]
InconsistentBundle(m) ==
    \/ \E f \in RatioFields \cap DOMAIN m : m[f] < 0 \/ m[f] > 100
    \/ \E f \in CountFields \cap DOMAIN m : m[f] < 0

\* the last call was a direct call of the scoring engine with inconsistent
\* input
InconsistentInput ==
    \/ /\ op = "calculate_confidence_level"
       /\ \/ activity_count < 0
          \/ metrics.data_completeness_score < 0
          \/ metrics.data_completeness_score > 1000
    \/ /\ op \in CategoryScorers
       /\ \E category \in DOMAIN metrics : InconsistentBundle(metrics[category])

\* C20: given inconsistent input (a negative count, a ratio outside [0,1],
\* a data completeness above 1) the scoring engine rejects the input with
\* an error; it returns no score computed from it.
C20_InconsistentInputIsRejected ==
    InconsistentInput => raised # Nothing

\* the number of High risks of the risk list that carry a category tag
HighRisksOf(tag) ==
    Cardinality({i \in 1..Len(risk_factors) :
                    /\ risk_factors[i].severity = "HIGH"
                    /\ risk_factors[i].category = tag})

\* C29: for every metrics bundle the four category scorers emit no risk of
\* severity Critical and at most three High risks in total: at most one
\* each from technical proficiency, engineering craftsmanship and
\* initiative & ownership, none from collaboration style; so the
\* recommendation of a full scoring run is never NotRecommended by the
\* Critical-risk rule.
C29_ScorersEmitNoCriticalRisk ==
    (op \in CategoryScorers \/ Assessed)
        => /\ SeverityCount("CRITICAL") = 0
           /\ SeverityCount("HIGH") <= 3
           /\ HighRisksOf("Technical Proficiency") <= 1
           /\ HighRisksOf("Engineering Craftsmanship") <= 1
           /\ HighRisksOf("Initiative & Ownership") <= 1
           /\ HighRisksOf("Collaboration Style") = 0
           /\ SeverityCount("HIGH")
                  = HighRisksOf("Technical Proficiency")
                        + HighRisksOf("Engineering Craftsmanship")
                        + HighRisksOf("Initiative & Ownership")
           /\ Assessed => hiring_recommendation # "Critical risks identified"

\* a full scoring run has emitted three High risks, one from each of the
\* three categories that can emit one, and has recommended against the
\* candidate for another reason than a Critical risk
C29_Witness ==
    /\ op = "score_comprehensive_assessment"
    /\ SeverityCount("HIGH") = 3
    /\ HighRisksOf("Technical Proficiency") = 1
    /\ HighRisksOf("Engineering Craftsmanship") = 1
    /\ HighRisksOf("Initiative & Ownership") = 1
    /\ recommendation = "NOT_RECOMMENDED"
    /\ hiring_recommendation # "Critical risks identified"

\* the score the scorer of a category returns for a bundle
ScoreOf(category, m) ==
    CASE category = "technical_proficiency" ->
             score_technical_proficiency(m).score
      [] category = "engineering_craftsmanship" ->
             score_engineering_craftsmanship(m).score
      [] category = "initiative_ownership" ->
             score_initiative_ownership(m).score
      [] category = "collaboration_style" ->
             score_collaboration_style(m).score

\* a bundle with one sub-metric absent (count 0, ratio 0, no pattern)
Without(m, f) ==
    [m EXCEPT ![f] = IF f = "work_rhythm_pattern" THEN "UNKNOWN" ELSE 0]

\* what one sub-metric adds to the score of its category
SubScore(category, m, f) ==
    ScoreOf(category, m) - ScoreOf(category, Without(m, f))

\* the weight of the sub-score of each sub-metric
SubScoreWeight ==
    [ai_ml_frameworks |-> 40, performance_lines |-> 25,
     full_stack_evidence |-> 20, dependency_sophistication_score |-> 15,
     commit_issue_linking_ratio |-> 30, testing_commitment_ratio |-> 30,
     structured_workflow_score |-> 25, code_review_thoroughness |-> 15,
     self_directed_work_cycles |-> 40, first_responder_instances |-> 20,
     personal_project_quality |-> 20, open_source_contributions |-> 20,
     temporal_dedication_score |-> 30, work_rhythm_pattern |-> 10,
     feedback_receptiveness_score |-> 25,
     communication_clarity_score |-> 20, mentorship_indicators |-> 15]

\* C26: every sub-score of every category saturates: no sub-score, those
\* computed as ratio * weight included, exceeds its weight, however large
\* the raw sub-metric is.
C26_SubScoreNeverExceedsWeight ==
    (op \in CategoryScorers \cup {"score_comprehensive_assessment"})
        => \A category \in DOMAIN category_scores :
               \A f \in DOMAIN metrics[category] :
                   SubScore(category, metrics[category], f)
                       <= Points(SubScoreWeight[f])

\* the analyses of the merged PRs the last collection was given
ExternalAnalyses == AnalyzeAll(scoring_input.search_results, FALSE)

\* the analyses of the work cycles the last collection was given
CycleAnalyses == AnalyzeAll(scoring_input.cycles, TRUE)

CISReadable ==
    /\ scoring_op = "analyze_pr_contribution"
    /\ scoring_input.outcome = "ok"

\* EnhancedCISCalculator analysed a PR whose repository and files could be
\* read
EnhancedReadable ==
    /\ scoring_op = "_analyze_pr_contribution"
    /\ scoring_input.pr.outcome = "ok"

\* C22: when the evidence for one sub-factor is unavailable (the comments
\* or the reactions cannot be fetched, the PR has no description to inspect
\* for self-direction) the contribution is still scored, with that
\* sub-factor at its neutral value (count 0, multiplier 1.0); it is not
\* dropped.
C22_MissingEvidenceIsNeutral ==
    /\ CISReadable
           => /\ cis_breakdown # None
              /\ ~scoring_input.comments_fetched
                     => cis_breakdown.community_multiplier
                            = CIS_calculate_community_multiplier(
                                  scoring_input.repo_stars, 0)
              /\ scoring_input.body = NullBody
                     => cis_breakdown.initiative_multiplier = 1
    /\ EnhancedReadable
           => /\ cis_breakdown # None
              /\ LET pr == scoring_input.pr
                 IN  cis_breakdown.quality_multiplier
                         = Enhanced_calculate_quality_multiplier(
                               IF pr.comments_available
                               THEN pr.comments_count ELSE 0,
                               IF pr.reactions_available
                               THEN pr.reactions_count ELSE 0)

\* ------------------------------------------------------------------------
\* Maintainer mode: properties
\* ------------------------------------------------------------------------

\* an analyze_contributor call has returned
Analysed ==
    scoring_op \in {"ImprovedHybridAnalyzer.analyze_contributor",
                    "OptimizedHybridAnalyzer.analyze_contributor"}

\* the number of merge actions among the candidate's activity items
MergeActions ==
    Cardinality({i \in 1..Len(scoring_input.candidates) :
                    IsMergeMessage(scoring_input.candidates[i].message)})

\* strictly more than 70% of the activity items are merge actions
MostlyMerges == 10 * MergeActions > 7 * Len(scoring_input.candidates)

\* C23: the analyzer switches to maintainer-leadership scoring if and only
\* if strictly more than 70% of the candidate's visible activity items are
\* merge actions; at exactly 70%, below it, or with no activity item,
\* standard scoring is used.
C23_MaintainerModeIffMostlyMerges ==
    Analysed
        => (analysis.analysis_type = "maintainer_leadership" <=> MostlyMerges)

\* the score log(stars + 1) * 2 of an owned project, in hundredths
ProjectScore(repo) == Ln(100 * (repo.stars + 1)) * 2

\* the h-index of a list of owned projects: the largest i such that at
\* least i projects score i or more
ProjectHIndex(repos) ==
    LET reaches(i) ==
            Cardinality({k \in 1..Len(repos) :
                            ProjectScore(repos[k]) >= 100 * i}) >= i
    IN  CHOOSE i \in 0..Len(repos) :
            /\ reaches(i)
            /\ \A j \in (i + 1)..Len(repos) : ~reaches(j)

\* C24: in maintainer-leadership mode the geek index is the h-index over
\* the candidate's owned projects, each scored log(stars + 1) * 2, and the
\* two analyzers that implement the mode return the same index for the
\* same projects.
C24_MaintainerIndexIsProjectHIndex ==
    (Analysed /\ analysis.analysis_type = "maintainer_leadership")
        => /\ analysis.g_index = ProjectHIndex(scoring_input.repos)
           /\ Improved_analyze_maintainer_contributions(
                  scoring_input.repos).g_index
                  = Optimized_analyze_as_maintainer(
                        scoring_input.repos).g_index

\* ------------------------------------------------------------------------
\* Collection: properties
\* ------------------------------------------------------------------------

\* find_significant_contributions has returned `significant`
Collected == scoring_op = "find_significant_contributions"

\* C25: the contributions returned with a geek index are in descending
\* order of final score, and of two contributions with the same final
\* score the one created more recently comes first, whatever the order in
\* which they were collected
C25_SortedByScoreThenRecency ==
    Collected =>
        \A i, j \in 1..Len(significant) :
            i < j =>
                /\ significant[i].cis_score >= significant[j].cis_score
                /\ significant[i].cis_score = significant[j].cis_score
                       => significant[i].created_at
                              >= significant[j].created_at

\* C30: no contribution, identified by its URL, is listed more than once
\* in what find_significant_contributions returns
C30_NoContributionListedTwice ==
    Collected =>
        \A i, j \in 1..Len(significant) :
            significant[i].url = significant[j].url => i = j

\* ------------------------------------------------------------------------
\* Contribution scoring: monotonicity
\* ------------------------------------------------------------------------

\* the files `files` with n lines of code instead
WithCodeLines(files, n) == [files EXCEPT !.code_lines = n]

\* the final score EnhancedCISCalculator.calculate_cis_score gives the
\* input i
EnhancedFinalScore(i) ==
    Enhanced_calculate_cis_score(i.files, i.comments_count,
                                 i.reactions_count, i.repo_stars,
                                 i.repo_forks,
                                 i.is_self_directed).final_cis_score

\* the final score ContributionImpactScorer.analyze_pr_contribution gives
\* the PR pr
CISFinalScore(pr) == CIS_analyze_pr_contribution(pr).cis_score

\* the code-line counts, star counts and comment counts of the inputs
CodeLineCounts == {files.code_lines : files \in FilesInputs}

\* C27: with every other input of a contribution held fixed, its final
\* score does not decrease when the number of code lines, the star count
\* of the repository or the number of substantive comments grows, also
\* where the quality multiplier is capped at 3.0 and the community
\* multiplier at 5.0
C27_FinalScoreIsMonotone ==
    /\ scoring_op = "calculate_cis_score" =>
           /\ \A n \in CodeLineCounts :
                  n >= scoring_input.files.code_lines =>
                      EnhancedFinalScore(
                          [scoring_input EXCEPT
                              !.files = WithCodeLines(@, n)])
                          >= cis_breakdown.final_cis_score
           /\ \A n \in CappedStarCounts :
                  n >= scoring_input.repo_stars =>
                      EnhancedFinalScore(
                          [scoring_input EXCEPT !.repo_stars = n])
                          >= cis_breakdown.final_cis_score
           /\ \A n \in CappedCommentCounts :
                  n >= scoring_input.comments_count =>
                      EnhancedFinalScore(
                          [scoring_input EXCEPT !.comments_count = n])
                          >= cis_breakdown.final_cis_score
    /\ scoring_op = "analyze_pr_contribution" /\ cis_breakdown # None =>
           /\ \A n \in CodeLineCounts :
                  n >= scoring_input.files.code_lines =>
                      CISFinalScore(
                          [scoring_input EXCEPT
                              !.files = WithCodeLines(@, n)])
                          >= cis_breakdown.cis_score
           /\ \A n \in StarCounts :
                  n >= scoring_input.repo_stars =>
                      CISFinalScore([scoring_input EXCEPT !.repo_stars = n])
                          >= cis_breakdown.cis_score
           /\ \A n \in CommentCounts :
                  n >= scoring_input.comments_count =>
                      CISFinalScore(
                          [scoring_input EXCEPT !.comments_count = n])
                          >= cis_breakdown.cis_score

\* a contribution with a positive score is scored with both multipliers
\* at their caps, while more comments and more stars are still possible
C27_Witness ==
    /\ scoring_op = "calculate_cis_score"
    /\ cis_breakdown.final_cis_score > 0
    /\ cis_breakdown.quality_multiplier = 300
    /\ cis_breakdown.community_multiplier = 500
    /\ \E n \in CappedCommentCounts : n > scoring_input.comments_count
    /\ \E n \in CappedStarCounts : n > scoring_input.repo_stars

\* ------------------------------------------------------------------------
\* One scorer shared by several candidates: properties
\* ------------------------------------------------------------------------

\* C28: whatever the order in which the steps of the candidates' scoring
\* calls are taken on one shared scorer, the scorer's attributes stay as
\* initialised, and each candidate gets the AssessmentResult and the geek
\* index that scoring this candidate's input alone gives
C28_SharedScorerGivesResultsAsAlone ==
    /\ shared_scorer = FoundingEngineerScorer
    /\ \A c \in Candidates :
           jobs[c].pc = "done" =>
               /\ jobs[c].result =
                      score_comprehensive_assessment(jobs[c].input.m,
                                                     jobs[c].input.count)
               /\ jobs[c].geek_index =
                      Enhanced_calculate_geek_index(
                          jobs[c].input.contributions).geek_index

\* two candidates with different inputs and different results have both
\* been scored, the steps of their calls interleaved
C28_Witness ==
    \E c, d \in Candidates :
        /\ jobs[c].pc = "done" /\ jobs[d].pc = "done"
        /\ jobs[c].interleaved /\ jobs[d].interleaved
        /\ jobs[c].input # jobs[d].input
        /\ jobs[c].result.overall_score # jobs[d].result.overall_score
        /\ jobs[c].geek_index # jobs[d].geek_index

=============================================================================
